---- MODULE Spec2Model ----
(***************************************************************************)
(* A model of the page-interaction automaton of deepseek-scrapper          *)
(* (src/core/chat_handler.py, class DeepSeekChatHandler):                  *)
(*   send_message, wait_for_response, get_latest_response.                 *)
(*                                                                         *)
(* and of its callers: the pooled /chat endpoint and the CLI loop          *)
(* (src/main.py), the single-handler /chat endpoint (src/api_main.py) and  *)
(* the chat store they write to (src/core/data_manager.py).                *)
(*                                                                         *)
(* The browser page is the environment.  Texts are sequences of one-       *)
(* character strings so that str.strip() can be computed.  Time is a       *)
(* clock of whole seconds (one poll interval) that advances only while the *)
(* handler sleeps: page calls take no time, waits are counted in ticks.    *)
(***************************************************************************)
EXTENDS Integers, Sequences, FiniteSets, TLC

VARIABLES
    \* ---- the page (environment) ----
    dom,            \* the message elements of the page, in document order
    page_ok,        \* FALSE once the page/browser connection is gone (page calls raise)
    generating,     \* the "stop generating" control is visible
    now,            \* the clock, in seconds (time.time())
    \* ---- get_latest_response ----
    response,       \* outcome of the last get_latest_response call
    \* ---- wait_for_response ----
    w_pc,           \* "idle", "grace" (sleep(2)), "sleep" (sleep(1)), "done"
    timeout,        \* the timeout argument, in seconds
    stability_check,
    start_time,
    last_text,
    stable_count,
    wake_at,        \* when the current sleep ends
    wait_result,    \* "-", "True" or "False"
    exit_reason,    \* history: why the loop ended
    polls,          \* history: what each poll of the loop observed
    quiet_since,    \* history: since when the indicator is absent over one
                    \* unchanged non-empty reply text (-1: it is not)
    \* ---- send_message ----
    s_pc,           \* "idle", "resolve", "fill", "upload", "enter", "check",
                    \* "fallback", "click", "done"
    message,
    image_path,     \* "" (None) or a path
    file_exists,    \* os.path.exists(image_path), as the file system has it now
    probe_visible,  \* the candidates visible to the probe loop that ran last
    target_selector,        \* index into input_selectors, 0 = None
    target_send_selector,   \* index into send_selectors, 0 = None
    input_value,    \* the page's textarea content
    input_readable, \* FALSE when the textarea is gone (the page navigated)
    textarea_val,   \* what line 99-103 read after Enter
    page_log,       \* history: the page actions performed, in order
    click_outcome,  \* history: "-", "ok" or "threw"
    probed_send,    \* history: the send-control probe loop ran
    send_failures,  \* history: the kinds of failure the call met on the page,
                    \* "ui" (host UI variance) and "capability" (page gone)
    upload_outcome, \* history: "-", "missing", "no_control", "raised",
                    \* "no_indicator" or "uploaded"
    send_result,    \* "-", "True", "False" or "raised"
    \* ---- the callers: the /chat endpoints and the CLI loop ----
    program,        \* "pool" (main.py, API mode), "single" (api_main.py),
                    \* "cli" (main.py, chat mode) or "-" (no caller runs)
    pool,           \* api_state.handler_pool: the queued handlers, oldest first
    is_busy,        \* state.is_busy of api_main.py
    req,            \* per request (or CLI turn): position, locals, outcome
    chats,          \* the rows of table chats
    messages,       \* the rows of table messages
    turns,          \* the turns the CLI loop has begun
    b_pc,           \* where the service stands between its start and its end
    handlers,       \* api_state._handlers / state.chat_handler: per handler, its page
    pages_opened,   \* history: the pages context.new_page() has made so far
    storage_exists, \* whether a persisted authentication state exists
    auth_log,       \* history: the reads and writes of the persisted state
    page_url        \* per page, the chat id in its URL (.../a/chat/s/<id>), NoId at home

pageVars == <<dom, page_ok, generating, now>>
getVars == <<response>>
waitVars == <<w_pc, timeout, stability_check, start_time, last_text, stable_count,
              wake_at, wait_result, exit_reason, polls, quiet_since>>
sendVars == <<s_pc, message, image_path, file_exists, probe_visible, target_selector,
              target_send_selector, input_value, input_readable, textarea_val, page_log,
              click_outcome, probed_send, send_failures, upload_outcome, send_result>>
handlerVars == <<pageVars, getVars, waitVars, sendVars>>
bootVars == <<b_pc, handlers, pages_opened, storage_exists, auth_log, page_url>>
svcVars == <<bootVars, program, pool, is_busy, req, chats, messages, turns>>
vars == <<handlerVars, svcVars>>

-----------------------------------------------------------------------------
(* Bounds of the model *)

MaxBubbles == 2         \* most message elements on the page
MaxTimeout == 6         \* largest timeout argument of wait_for_response, in seconds
MaxMessageLen == 2      \* longest message text given to send_message
PoolSize == 2           \* N: the handlers put into the pool at startup
MaxTurns == 2           \* most turns the CLI loop is followed through

-----------------------------------------------------------------------------
(* Values *)

\* Python's None and an optional text
None == [none |-> TRUE, val |-> <<>>]
Some(t) == [none |-> FALSE, val |-> t]

Whitespace == {" "}

\* the inner texts of a message element, before decoration
DomTexts == {<<" ">>, <<" ", "a", " ">>}

\* str.strip(): drop leading and trailing whitespace
RECURSIVE LStrip(_)
LStrip(s) ==
    IF s = <<>> THEN <<>>
    ELSE IF Head(s) \in Whitespace THEN LStrip(Tail(s))
    ELSE s

RECURSIVE RStrip(_)
RStrip(s) ==
    IF s = <<>> THEN <<>>
    ELSE IF s[Len(s)] \in Whitespace THEN RStrip(SubSeq(s, 1, Len(s) - 1))
    ELSE s

Strip(s) == RStrip(LStrip(s))

-----------------------------------------------------------------------------
(* The page's message elements.                                            *)
(* kind:  0 = matched by the primary bubble path (base_message_xpath/div), *)
(*        i in 1..3 = matched by alternative_containers[i],                *)
(*        4 = matched by no query of get_latest_response.                  *)
(* shape: which sub-elements the element holds.                            *)

NumAlternatives == 3
NoMatchKind == NumAlternatives + 1

Shapes == {"content_markdown", "content_plain", "bubble_markdown", "bubble_plain"}

\* an element none of the queries matches
Unmatched == [kind |-> NoMatchKind, shape |-> "bubble_plain", text |-> <<" ", "a", " ">>]

Elements == [kind : 0..NumAlternatives, shape : Shapes, text : DomTexts] \cup {Unmatched}

RECURSIVE SeqsUpTo(_, _)
SeqsUpTo(S, n) ==
    IF n = 0 THEN {<<>>}
    ELSE LET shorter == SeqsUpTo(S, n - 1)
         IN shorter \cup {Append(s, e) : s \in {x \in shorter : Len(x) = n - 1}, e \in S}

Doms == SeqsUpTo(Elements, MaxBubbles)

\* last_bubble.query_selector("xpath=./div[1]/div[1]") finds the nested content element
HasContent(e) == e.shape \in {"content_markdown", "content_plain"}
\* content_element.query_selector(".ds-markdown.ds-markdown--block")
ContentHasMarkdown(e) == e.shape = "content_markdown"
\* last_bubble.query_selector(".ds-markdown.ds-markdown--block")
BubbleHasMarkdown(e) == e.shape \in {"content_markdown", "bubble_markdown"}

\* inner_text() of the three nodes: an enclosing node shows what it encloses
\* plus its own decoration
MarkdownText(e) == e.text
ContentText(e) == IF ContentHasMarkdown(e) THEN e.text \o <<"c">> ELSE e.text
BubbleText(e) ==
    IF HasContent(e) THEN ContentText(e) \o <<"u">>
    ELSE IF BubbleHasMarkdown(e) THEN e.text \o <<"u">>
    ELSE e.text

-----------------------------------------------------------------------------
(* get_latest_response  (chat_handler.py 180-222) *)

\* a selector matching too much: also the elements no query should match
QuerySelectorAll_Loose(d, q) ==
    SelectSeq(d, LAMBDA e : e.kind = q \/ e.kind = NoMatchKind)

\* page.query_selector_all(selector): the matching elements in document order
QuerySelectorAll(d, q) == SelectSeq(d, LAMBDA e : e.kind = q)

\* lines 193-195: the alternative container queries, in list order, until one matches
RECURSIVE AlternativeBubbles(_, _)
AlternativeBubbles(d, i) ==
    IF i > NumAlternatives THEN <<>>
    ELSE LET bubbles == QuerySelectorAll(d, i)
         IN IF bubbles # <<>> THEN bubbles ELSE AlternativeBubbles(d, i + 1)

\* lines 184-195 with the alternative queries tried before the primary path
Bubbles_AlternativesFirst(d) ==
    LET bubbles == AlternativeBubbles(d, 1)
    IN IF bubbles # <<>> THEN bubbles ELSE QuerySelectorAll(d, 0)

\* lines 184-195
Bubbles(d) ==
    LET bubbles == QuerySelectorAll(d, 0)
    IN IF bubbles # <<>> THEN bubbles ELSE AlternativeBubbles(d, 1)

\* lines 204-218 without the strip
ExtractText_NoStrip(last_bubble) ==
    IF HasContent(last_bubble)
    THEN IF ContentHasMarkdown(last_bubble)
         THEN MarkdownText(last_bubble)
         ELSE ContentText(last_bubble)
    ELSE IF BubbleHasMarkdown(last_bubble)
         THEN MarkdownText(last_bubble)
         ELSE BubbleText(last_bubble)

\* lines 204-218: nested content first, then the bubble itself
ExtractText(last_bubble) ==
    IF HasContent(last_bubble)
    THEN IF ContentHasMarkdown(last_bubble)
         THEN Strip(MarkdownText(last_bubble))
         ELSE Strip(ContentText(last_bubble))
    ELSE IF BubbleHasMarkdown(last_bubble)
         THEN Strip(MarkdownText(last_bubble))
         ELSE Strip(BubbleText(last_bubble))

\* the whole function: a page call that raises is caught (lines 220-222)
GetLatestResponse(d, ok) ==
    IF ~ok THEN None
    ELSE LET bubbles == Bubbles(d)
         IN IF bubbles = <<>> THEN None
            ELSE Some(ExtractText(bubbles[Len(bubbles)]))

NotCalled == [called |-> FALSE, raised |-> FALSE, value |-> None]
Returned(v) == [called |-> TRUE, raised |-> FALSE, value |-> v]

\* the values of a handler that is not inside wait_for_response
WaitIdle ==
    /\ w_pc = "idle"
    /\ timeout = 0
    /\ stability_check = TRUE
    /\ start_time = 0
    /\ last_text = <<>>
    /\ stable_count = 0
    /\ wake_at = 0
    /\ wait_result = "-"
    /\ exit_reason = "-"
    /\ polls = <<>>
    /\ quiet_since = -1

\* the values of a handler that is not inside send_message
SendIdle ==
    /\ s_pc = "idle"
    /\ message = <<>>
    /\ image_path = ""
    /\ file_exists = FALSE
    /\ probe_visible = {}
    /\ target_selector = 0
    /\ target_send_selector = 0
    /\ input_value = <<>>
    /\ input_readable = TRUE
    /\ textarea_val = <<>>
    /\ page_log = <<>>
    /\ click_outcome = "-"
    /\ probed_send = FALSE
    /\ send_failures = {}
    /\ upload_outcome = "-"
    /\ send_result = "-"

\* main.py 56-61: handlers 1..N are queued at startup; N + 1 requests are followed
Handlers == 1..PoolSize
NumRequests == PoolSize + 1
Requests == 1..NumRequests

\* identifiers: a uuid4 made for request n, a chat id of the host taken from the
\* page URL, the primary key of a chat row, the literal "new", and None
NoId == [kind |-> "none", n |-> 0]
NewChat == [kind |-> "new", n |-> 0]
Uuid(n) == [kind |-> "uuid", n |-> n]
RealId(n) == [kind |-> "real", n |-> n]
RowId(n) == [kind |-> "row", n |-> n]
\* models.py 35: a chat row gets a uuid4 of its own as primary key; the model
\* names it after the request (or turn) and the role whose save created the row
RowIdFor(by, role) == RowId(2 * by + (IF role = "assistant" THEN 1 ELSE 0))

\* no chat row: the None of scalar_one_or_none
NoRow == [id |-> NoId, chat_id |-> NoId]

\* a request that has not arrived
FreshRequest ==
    [pc |-> "new", handler |-> 0, message |-> <<>>, chat_arg |-> NoId, chat_uuid |-> NoId,
     success |-> "-", typed |-> FALSE, real |-> NoId, response_text |-> None,
     status |-> "-", out_chat_id |-> NoId, calls |-> <<>>, suspended |-> FALSE,
     saved_as |-> NoId, wait_exit |-> "-", image |-> "none", temp_file |-> "-",
     db_chat |-> NoRow, old_chat |-> NoRow, existing_chat |-> NoRow]

\* n handlers stand over the pages 1..n, as a startup that went through leaves them
BootDoneWith(n) ==
    /\ b_pc = "serving"
    /\ handlers = [h \in 1..n |-> h]
    /\ pages_opened = n
    /\ storage_exists = TRUE
    /\ auth_log = <<>>
    /\ page_url = [h \in 1..n |-> NoId]

\* no caller runs
SvcIdle ==
    /\ BootDoneWith(0)
    /\ program = "-"
    /\ pool = <<>>
    /\ is_busy = FALSE
    /\ req = [r \in Requests |-> FreshRequest]
    /\ chats = {}
    /\ messages = {}
    /\ turns = 0

GetInit ==
    /\ dom \in Doms
    /\ page_ok \in BOOLEAN
    /\ generating = FALSE
    /\ now = 0
    /\ response = NotCalled
    /\ WaitIdle
    /\ SendIdle
    /\ SvcIdle

GetLatestResponseCall ==
    /\ response' = Returned(GetLatestResponse(dom, page_ok))
    /\ UNCHANGED <<svcVars, pageVars, waitVars, sendVars>>

\* the host UI renders another element
RenderElement ==
    /\ Len(dom) < MaxBubbles
    /\ \E e \in Elements : dom' = Append(dom, e)
    /\ response' = NotCalled
    /\ UNCHANGED <<svcVars, page_ok, generating, now, waitVars, sendVars>>

\* the host UI drops its newest element
RemoveElement ==
    /\ dom # <<>>
    /\ dom' = SubSeq(dom, 1, Len(dom) - 1)
    /\ response' = NotCalled
    /\ UNCHANGED <<svcVars, page_ok, generating, now, waitVars, sendVars>>

\* the browser connection drops
PageLost ==
    /\ page_ok
    /\ page_ok' = FALSE
    /\ response' = NotCalled
    /\ UNCHANGED <<svcVars, dom, generating, now, waitVars, sendVars>>

GetNext == GetLatestResponseCall \/ RenderElement \/ RemoveElement \/ PageLost

SpecGet == GetInit /\ [][GetNext]_vars

\* the queries of get_latest_response, primary first
AllQueries == 0..NumAlternatives
NoQueryMatches(d) == \A q \in AllQueries : \A i \in 1..Len(d) : d[i].kind # q

\* C10: get_latest_response returns None, without raising, when neither the
\* primary bubble path nor any alternative container query matches an element.
C10_NoneWhenNoContainer ==
    (response.called /\ NoQueryMatches(dom))
        => (~response.raised /\ response.value = None)

\* C10 witness: a call on a live page that holds elements, none matched by a query
C10_Witness ==
    /\ response.called
    /\ page_ok
    /\ dom # <<>>
    /\ NoQueryMatches(dom)
    /\ response.value = None

-----------------------------------------------------------------------------
(* wait_for_response  (chat_handler.py 142-178) *)

DefaultTimeout == 120       \* line 142: timeout = 120000 ms, line 153: / 1000
GraceSeconds == 2           \* line 151: asyncio.sleep(2)
PollSeconds == 1            \* line 172: asyncio.sleep(1)
StableTicksRequired == 2    \* line 169: stable_count >= 2

\* the reply bubbles the page shows while a reply streams in
WaitTexts == {<<" ">>, <<" ", "a", " ">>, <<"b">>}
WaitDoms ==
    {<<>>} \cup {<<[kind |-> 0, shape |-> "content_markdown", text |-> t]>> : t \in WaitTexts}

\* `x or ""`
OrEmpty(opt) == IF opt.none THEN <<>> ELSE opt.val

\* the reply text an extraction would read from a live page
ExtractedText(d) == OrEmpty(GetLatestResponse(d, TRUE))

\* lines 163-166 without the truth test of current_text
StableCountAfter_NoTruthTest(current_text, last, count) ==
    IF current_text = last THEN count + 1 ELSE 0

\* lines 163-166: the stability counter after a read of current_text
StableCountAfter(current_text, last, count) ==
    IF current_text # <<>> /\ current_text = last THEN count + 1 ELSE 0

\* lines 163-167: last_text is replaced only in the else branch
LastTextAfter(current_text, last) ==
    IF current_text # <<>> /\ current_text = last THEN last ELSE current_text

\* line 169 with one more tick required
StableEnough_OneMore(count) == count >= StableTicksRequired + 1

\* line 169
StableEnough(count) == count >= StableTicksRequired

\* line 158 with the flag ignored
BreaksOnAbsence_Always(check) == TRUE

\* line 158: `if not stability_check: break`
BreaksOnAbsence(check) == ~check

\* lines 174-178: every exit of the loop returns True, an exception returns False
WaitReturnValue(reason) == IF reason = "error" THEN "False" ELSE "True"

\* line 153: time.time() - start_time < timeout / 1000
InTime(t) == t - start_time < timeout

Sleeping == w_pc \in {"grace", "sleep"}
Awake == Sleeping /\ now = wake_at

\* what a poll observed, and when it was made
GeneratingPoll == [gen |-> TRUE, read |-> FALSE, text |-> <<>>, at |-> now]
AbsentPoll == [gen |-> FALSE, read |-> FALSE, text |-> <<>>, at |-> now]
ReadPoll(t) == [gen |-> FALSE, read |-> TRUE, text |-> t, at |-> now]

QuietNow(gen, d, ok) == ok /\ ~gen /\ ExtractedText(d) # <<>>

WaitInit ==
    /\ dom \in WaitDoms
    /\ page_ok = TRUE
    /\ generating \in BOOLEAN
    /\ now = 0
    /\ response = NotCalled
    /\ WaitIdle
    /\ SendIdle
    /\ SvcIdle

\* lines 142-151: the call, up to the start of the grace sleep
WaitForResponseCallOver(timeouts, checks) ==
    /\ w_pc = "idle"
    /\ \E t \in timeouts, sc \in checks :
        /\ timeout' = t
        /\ stability_check' = sc
    /\ start_time' = now
    /\ last_text' = <<>>
    /\ stable_count' = 0
    /\ wake_at' = now + GraceSeconds
    /\ w_pc' = "grace"
    /\ quiet_since' = IF QuietNow(generating, dom, page_ok) THEN now ELSE -1
    /\ UNCHANGED <<svcVars, pageVars, getVars, sendVars, wait_result, exit_reason, polls>>

WaitForResponseCall == WaitForResponseCallOver(0..MaxTimeout, BOOLEAN)

\* a second passes while the handler sleeps
Tick ==
    /\ Sleeping
    /\ now < wake_at
    /\ now' = now + 1
    /\ UNCHANGED <<svcVars, dom, page_ok, generating, getVars, waitVars, sendVars>>

Return(reason) ==
    /\ w_pc' = "done"
    /\ exit_reason' = reason
    /\ wait_result' = WaitReturnValue(reason)

\* line 172 without the sleep: the loop polls again at once
SleepAgain_NoSleep ==
    /\ w_pc' = "sleep"
    /\ wake_at' = now
    /\ UNCHANGED <<exit_reason, wait_result>>

\* line 172: asyncio.sleep(1) before the next pass of the loop
SleepAgain ==
    /\ w_pc' = "sleep"
    /\ wake_at' = now + PollSeconds
    /\ UNCHANGED <<exit_reason, wait_result>>

\* line 153 false: the loop ends, lines 174-175
LoopTimeout ==
    /\ Awake
    /\ ~InTime(now)
    /\ Return("timeout")
    /\ UNCHANGED <<svcVars, pageVars, getVars, sendVars, timeout, stability_check, start_time, last_text,
                   stable_count, wake_at, polls, quiet_since>>

\* line 155 raises: lines 176-178
PollRaises ==
    /\ Awake
    /\ InTime(now)
    /\ ~page_ok
    /\ Return("error")
    /\ UNCHANGED <<svcVars, pageVars, getVars, sendVars, timeout, stability_check, start_time, last_text,
                   stable_count, wake_at, polls, quiet_since>>

\* lines 155-157, 172: the indicator is visible
PollGenerating ==
    /\ Awake
    /\ InTime(now)
    /\ page_ok
    /\ generating
    /\ polls' = Append(polls, GeneratingPoll)
    /\ SleepAgain
    /\ UNCHANGED <<svcVars, pageVars, getVars, sendVars, timeout, stability_check, start_time, last_text,
                   stable_count, quiet_since>>

\* lines 155-159: the indicator is absent and stability is not checked
PollAbsentBreak ==
    /\ Awake
    /\ InTime(now)
    /\ page_ok
    /\ ~generating
    /\ BreaksOnAbsence(stability_check)
    /\ polls' = Append(polls, AbsentPoll)
    /\ Return("indicator")
    /\ UNCHANGED <<svcVars, pageVars, getVars, sendVars, timeout, stability_check, start_time, last_text,
                   stable_count, wake_at, quiet_since>>

\* lines 155-172: the indicator is absent and the reply text is read
PollAbsentRead ==
    /\ Awake
    /\ InTime(now)
    /\ page_ok
    /\ ~generating
    /\ ~BreaksOnAbsence(stability_check)
    /\ LET current_text == OrEmpty(GetLatestResponse(dom, page_ok))
           count == StableCountAfter(current_text, last_text, stable_count)
       IN /\ polls' = Append(polls, ReadPoll(current_text))
          /\ stable_count' = count
          /\ last_text' = LastTextAfter(current_text, last_text)
          /\ IF StableEnough(count)
             THEN Return("stable") /\ UNCHANGED wake_at
             ELSE SleepAgain
    /\ UNCHANGED <<svcVars, pageVars, getVars, sendVars, timeout, stability_check, start_time, quiet_since>>

\* the host starts (or resumes) streaming: the stop control shows
IndicatorAppears ==
    /\ Sleeping
    /\ ~generating
    /\ generating' = TRUE
    /\ quiet_since' = -1
    /\ UNCHANGED <<svcVars, dom, page_ok, now, getVars, sendVars, w_pc, timeout, stability_check, start_time,
                   last_text, stable_count, wake_at, wait_result, exit_reason, polls>>

\* the stop control goes away
IndicatorDisappears ==
    /\ Sleeping
    /\ generating
    /\ generating' = FALSE
    /\ quiet_since' = IF QuietNow(FALSE, dom, page_ok) THEN now ELSE -1
    /\ UNCHANGED <<svcVars, dom, page_ok, now, getVars, sendVars, w_pc, timeout, stability_check, start_time,
                   last_text, stable_count, wake_at, wait_result, exit_reason, polls>>

\* the host re-renders the reply
ReplyRerendered ==
    /\ Sleeping
    /\ \E d \in WaitDoms \ {dom} :
        /\ dom' = d
        /\ quiet_since' = IF ExtractedText(d) = ExtractedText(dom) THEN quiet_since ELSE -1
    /\ UNCHANGED <<svcVars, page_ok, generating, now, getVars, sendVars, w_pc, timeout, stability_check,
                   start_time, last_text, stable_count, wake_at, wait_result, exit_reason,
                   polls>>

\* the browser connection drops during the wait
ConnectionDrops ==
    /\ Sleeping
    /\ page_ok
    /\ page_ok' = FALSE
    /\ quiet_since' = -1
    /\ UNCHANGED <<svcVars, dom, generating, now, getVars, sendVars, w_pc, timeout, stability_check, start_time,
                   last_text, stable_count, wake_at, wait_result, exit_reason, polls>>

WaitNext ==
    \/ WaitForResponseCall
    \/ Tick
    \/ LoopTimeout
    \/ PollRaises
    \/ PollGenerating
    \/ PollAbsentBreak
    \/ PollAbsentRead
    \/ IndicatorAppears
    \/ IndicatorDisappears
    \/ ReplyRerendered
    \/ ConnectionDrops

SpecWait == WaitInit /\ [][WaitNext]_vars

-----------------------------------------------------------------------------
(* Properties of wait_for_response, checked under SpecWait *)

Returned_ == w_pc = "done"
Reads == SelectSeq(polls, LAMBDA p : p.read)
AbsentPolls == SelectSeq(polls, LAMBDA p : ~p.gen)
AllPollsGenerating == \A i \in 1..Len(polls) : polls[i].gen
DoneObserved == exit_reason \in {"stable", "indicator"}

\* C1: wait_for_response returns False whenever its polling ends because the
\* elapsed time reached the timeout, and True only when a Done condition (stable
\* text, or indicator absence without stability checking) was observed first.
C1_TimeoutReportsFailure ==
    Returned_ =>
        /\ (exit_reason = "timeout" => wait_result = "False")
        /\ (wait_result = "True" => DoneObserved)

\* C2: with stability_check enabled and the indicator visible on every poll, the
\* call is over no later than timeout + one poll interval after it was made, for
\* every timeout value.
C2_EndsByTimeoutPlusPoll ==
    (w_pc # "idle" /\ stability_check /\ generating /\ AllPollsGenerating)
        => now - start_time <= timeout + PollSeconds

\* What the loop does guarantee in the case of C2: the call is over no later than
\* the grace period or timeout + one poll interval, whichever is later.
WaitEndsByGraceOrTimeout ==
    (w_pc # "idle" /\ stability_check /\ generating /\ AllPollsGenerating)
        => \/ now - start_time <= GraceSeconds
           \/ now - start_time <= timeout + PollSeconds

\* C3: with stability_check enabled, completion is declared before the timeout
\* only after the indicator was absent and the extracted text was non-empty and
\* identical on the required two consecutive stable ticks (each read equal to the
\* read before it); with the text empty or missing on every poll it never is.
C3_StableOnlyAfterEqualNonEmptyReads ==
    (stability_check /\ Returned_ /\ exit_reason \notin {"timeout", "error"}) =>
        LET n == Len(Reads)
        IN /\ exit_reason = "stable"
           /\ ~polls[Len(polls)].gen
           /\ n >= StableTicksRequired + 1
           /\ Reads[n].text # <<>>
           /\ \A k \in 0..(StableTicksRequired - 1) : Reads[n - k].text = Reads[n - k - 1].text
           /\ \E i \in 1..n : Reads[i].text # <<>>

\* C3 witness: a stable completion after the indicator had been seen visible
C3_Witness ==
    /\ stability_check
    /\ Returned_
    /\ exit_reason = "stable"
    /\ wait_result = "True"
    /\ \E i \in 1..Len(polls) : polls[i].gen

\* C4: once the indicator has disappeared and stays absent over one unchanged
\* non-empty reply text, the call is over within grace + 2 poll intervals of the
\* disappearance, and unless the timeout ended it, it returned True on a Done
\* condition.
C4_DoneWithinGracePlusTwoPolls ==
    (w_pc # "idle" /\ quiet_since >= 0) =>
        /\ now - quiet_since <= GraceSeconds + 2 * PollSeconds
        /\ (Returned_ /\ exit_reason # "timeout") => (wait_result = "True" /\ DoneObserved)

\* C4 witness: the indicator disappeared during the wait, the text stayed, and
\* the call returned True on stable text
C4_Witness ==
    /\ Returned_
    /\ quiet_since > start_time
    /\ exit_reason = "stable"
    /\ wait_result = "True"
    /\ now - quiet_since >= 2 * PollSeconds

\* C5: with stability_check disabled the first poll that finds the indicator
\* absent ends the wait with completion and no reply text is ever read; with it
\* enabled every absence is followed by a read and one absence alone never ends
\* the wait.
C5_AbsenceAloneEndsOnlyWithoutCheck ==
    /\ (w_pc # "idle" /\ ~stability_check) =>
        /\ Reads = <<>>
        /\ \A i \in 1..Len(polls) :
            ~polls[i].gen => /\ i = Len(polls)
                             /\ Returned_
                             /\ exit_reason = "indicator"
                             /\ wait_result = "True"
    /\ (w_pc # "idle" /\ stability_check) =>
        /\ AbsentPolls = Reads
        /\ (Returned_ /\ Len(AbsentPolls) <= 1) => exit_reason \in {"timeout", "error"}

\* C5 witness: without stability checking, a poll that saw the indicator visible
\* and the next one that saw it absent, which ended the wait
C5_Witness ==
    /\ ~stability_check
    /\ Returned_
    /\ exit_reason = "indicator"
    /\ Len(polls) >= 2
    /\ polls[1].gen
    /\ Reads = <<>>

-----------------------------------------------------------------------------
(* send_message  (chat_handler.py 30-140) *)

NumInputSelectors == 6      \* lines 34-41: input_selectors
NumSendSelectors == 7       \* lines 107-119: send_selectors

MessageChars == {" ", "a"}
Messages == SeqsUpTo(MessageChars, MaxMessageLen)

\* a probe loop without its break: the last visible candidate wins
Probe_NoBreak(visible, n) ==
    IF visible \cap (1..n) = {} THEN 0
    ELSE CHOOSE i \in visible \cap (1..n) : \A j \in visible \cap (1..n) : j <= i

\* a probe loop that falls back to its last candidate when none is visible
RECURSIVE ProbeOrLast_From(_, _, _)
ProbeOrLast_From(visible, i, n) ==
    IF i >= n THEN n
    ELSE IF i \in visible THEN i
    ELSE ProbeOrLast_From(visible, i + 1, n)
Probe_DefaultsToLast(visible, n) == ProbeOrLast_From(visible, 1, n)

\* lines 44-51 and 122-128: candidate i is tried after candidates 1..i-1 timed
\* out, and the loop breaks at the first that is visible; 0 is None
RECURSIVE ProbeFrom(_, _, _)
ProbeFrom(visible, i, n) ==
    IF i > n THEN 0
    ELSE IF i \in visible THEN i
    ELSE ProbeFrom(visible, i + 1, n)

Probe(visible, n) == ProbeFrom(visible, 1, n)

\* line 105 without the strip
NeedsFallback_NoStrip(val) == val # <<>>

\* line 105: `if textarea_val and len(textarea_val.strip()) > 0`
NeedsFallback(val) == val # <<>> /\ Len(Strip(val)) > 0

\* wait_for_selector raises for every candidate once the page is gone
Seen(visible) == IF page_ok THEN visible ELSE {}

InSend == s_pc \notin {"idle", "done"}

SendReturn(value) ==
    /\ s_pc' = "done"
    /\ send_result' = value

SendInit ==
    /\ dom = <<>>
    /\ page_ok = TRUE
    /\ generating = FALSE
    /\ now = 0
    /\ response = NotCalled
    /\ WaitIdle
    /\ SvcIdle
    /\ s_pc = "idle"
    /\ message = <<>>
    /\ image_path = ""
    /\ file_exists \in BOOLEAN
    /\ probe_visible = {}
    /\ target_selector = 0
    /\ target_send_selector = 0
    /\ input_value = <<>>
    /\ input_readable = TRUE
    /\ textarea_val = <<>>
    /\ page_log = <<>>
    /\ click_outcome = "-"
    /\ probed_send = FALSE
    /\ send_failures = {}
    /\ upload_outcome = "-"
    /\ send_result = "-"

\* lines 138-140 without the handler: the exception leaves the call
OnSendException_Reraise == "raised"

\* lines 138-140: `except Exception` prints and returns False
OnSendException == "False"

\* lines 69-74 without the os.path.exists test
CallsSetInputFiles_NoExistsCheck(exists, found) == found

\* lines 69-74: set_input_files is called when the file exists and the file
\* control was found
CallsSetInputFiles(exists, found) == exists /\ found

\* the kind of a failure met on the page
FailureKind == IF page_ok THEN "ui" ELSE "capability"

\* line 30: the call
SendMessageCallOver(msgs) ==
    /\ s_pc = "idle"
    /\ \E m \in msgs, img \in {"", "img.png"} :
        /\ message' = m
        /\ image_path' = img
    /\ s_pc' = "resolve"
    /\ UNCHANGED <<svcVars, pageVars, getVars, waitVars, file_exists, probe_visible, target_selector,
                   target_send_selector, input_value, input_readable, textarea_val,
                   page_log, click_outcome, probed_send, send_failures, upload_outcome,
                   send_result>>

SendMessageCall == SendMessageCallOver(Messages)

\* lines 43-55: the input probe loop, and the return when nothing was found
ResolveInputOver(visibles) ==
    /\ s_pc = "resolve"
    /\ \E visible \in visibles :
        LET target == Probe(Seen(visible), NumInputSelectors)
        IN /\ probe_visible' = Seen(visible)
           /\ target_selector' = target
           /\ send_failures' = IF target = 1 THEN send_failures
                               ELSE send_failures \cup {FailureKind}
           /\ IF target = 0
              THEN SendReturn("False")
              ELSE s_pc' = "fill" /\ UNCHANGED send_result
    /\ UNCHANGED <<svcVars, pageVars, getVars, waitVars, message, image_path, file_exists,
                   target_send_selector, input_value, input_readable, textarea_val,
                   page_log, click_outcome, probed_send, upload_outcome>>

ResolveInput == ResolveInputOver(SUBSET (1..NumInputSelectors))

\* lines 59-61 typing the text a second time
FillActions_TypeTwice == <<"focus", "type", "type">>

\* lines 59-61: page.focus, then page.type, each called once
FillActions == <<"focus", "type">>

\* lines 59-62: focus and type; a raise (the page is gone, or the input went away
\* after the probe) goes to lines 138-140
FillMessage ==
    /\ s_pc = "fill"
    /\ \E detached \in BOOLEAN :
        IF page_ok /\ ~detached
        THEN /\ page_log' = page_log \o FillActions
             /\ input_value' = input_value \o message
             /\ s_pc' = IF image_path # "" THEN "upload" ELSE "enter"
             /\ UNCHANGED <<send_result, send_failures>>
        ELSE /\ SendReturn(OnSendException)
             /\ send_failures' = send_failures \cup {FailureKind}
             /\ UNCHANGED <<page_log, input_value>>
    /\ UNCHANGED <<svcVars, pageVars, getVars, waitVars, message, image_path, file_exists,
                   probe_visible, target_selector, target_send_selector, input_readable,
                   textarea_val, click_outcome, probed_send, upload_outcome>>

\* lines 65-90: the upload; every failure in it is swallowed and line 94 is next.
\* Lines 69-74 are one step: the file system does not change between the
\* existence test and the call of set_input_files.
UploadImage ==
    /\ s_pc = "upload"
    /\ \E found \in BOOLEAN, raises \in BOOLEAN, indicator \in BOOLEAN :
        LET called == page_ok /\ CallsSetInputFiles(file_exists, found)
            outcome == IF called
                       THEN IF raises THEN "raised"
                            ELSE IF indicator THEN "uploaded" ELSE "no_indicator"
                       ELSE IF ~file_exists THEN "missing"
                       ELSE IF ~page_ok THEN "raised"
                       ELSE "no_control"
        IN /\ upload_outcome' = outcome
           /\ page_log' = IF called
                          THEN Append(page_log, IF file_exists THEN "set_input_files"
                                                ELSE "set_input_files(missing)")
                          ELSE page_log
           /\ send_failures' = IF outcome = "uploaded" THEN send_failures
                               ELSE send_failures \cup {FailureKind}
    /\ s_pc' = "enter"
    /\ UNCHANGED <<svcVars, pageVars, getVars, waitVars, message, image_path, file_exists,
                   probe_visible, target_selector, target_send_selector, input_value,
                   input_readable, textarea_val, click_outcome, probed_send, send_result>>

\* lines 94-95: the Enter keypress; the page accepts the message (and clears the
\* input), ignores the key, or navigates away
PressEnter ==
    /\ s_pc = "enter"
    /\ IF page_ok
       THEN /\ page_log' = Append(page_log, "enter")
            /\ \E outcome \in {"accepted", "ignored", "navigated"} :
                /\ input_value' = IF outcome = "accepted" THEN <<>> ELSE input_value
                /\ input_readable' = (outcome # "navigated")
            /\ s_pc' = "check"
            /\ UNCHANGED <<send_result, send_failures>>
       ELSE /\ SendReturn(OnSendException)
            /\ send_failures' = send_failures \cup {FailureKind}
            /\ UNCHANGED <<page_log, input_value, input_readable>>
    /\ UNCHANGED <<svcVars, pageVars, getVars, waitVars, message, image_path, file_exists,
                   probe_visible, target_selector, target_send_selector, textarea_val,
                   click_outcome, probed_send, upload_outcome>>

\* lines 98-103 taking a read that raises as text still standing in the input
ReadTextarea_KeepsValue(ok, readable, value) == value

\* lines 98-103: eval_on_selector(target_selector, "el => el.value"), and ""
\* when it raises
ReadTextarea(ok, readable, value) == IF ok /\ readable THEN value ELSE <<>>

\* lines 98-105 and 136-137: read the textarea; "" when the read raises
CheckTextarea ==
    /\ s_pc = "check"
    /\ LET val == ReadTextarea(page_ok, input_readable, input_value)
       IN /\ textarea_val' = val
          /\ send_failures' = IF page_ok /\ input_readable THEN send_failures
                              ELSE send_failures \cup {FailureKind}
          /\ IF NeedsFallback(val)
             THEN s_pc' = "fallback" /\ UNCHANGED send_result
             ELSE SendReturn("True")
    /\ UNCHANGED <<svcVars, pageVars, getVars, waitVars, message, image_path, file_exists,
                   probe_visible, target_selector, target_send_selector, input_value,
                   input_readable, page_log, click_outcome, probed_send, upload_outcome>>

\* lines 107-130 and 136-137: the send-control probe loop
ProbeSendControlOver(visibles) ==
    /\ s_pc = "fallback"
    /\ probed_send' = TRUE
    /\ \E visible \in visibles :
        LET target == Probe(Seen(visible), NumSendSelectors)
        IN /\ probe_visible' = Seen(visible)
           /\ target_send_selector' = target
           /\ send_failures' = IF target = 1 THEN send_failures
                               ELSE send_failures \cup {FailureKind}
           /\ IF target = 0
              THEN SendReturn("True")
              ELSE s_pc' = "click" /\ UNCHANGED send_result
    /\ UNCHANGED <<svcVars, pageVars, getVars, waitVars, message, image_path, file_exists,
                   target_selector, input_value, input_readable, textarea_val, page_log,
                   click_outcome, upload_outcome>>

ProbeSendControl == ProbeSendControlOver(SUBSET (1..NumSendSelectors))

\* lines 131-137: the click, whose failure is swallowed
ClickSend ==
    /\ s_pc = "click"
    /\ \E fails \in BOOLEAN :
        LET threw == fails \/ ~page_ok
        IN /\ click_outcome' = IF threw THEN "threw" ELSE "ok"
           /\ page_log' = IF threw THEN page_log ELSE Append(page_log, "click")
           /\ send_failures' = IF threw THEN send_failures \cup {FailureKind}
                               ELSE send_failures
    /\ SendReturn("True")
    /\ UNCHANGED <<svcVars, pageVars, getVars, waitVars, message, image_path, file_exists,
                   probe_visible, target_selector, target_send_selector, input_value,
                   input_readable, textarea_val, probed_send, upload_outcome>>

\* the image file is removed or created while the call runs
FileChanges ==
    /\ InSend
    /\ image_path # ""
    /\ file_exists' = ~file_exists
    /\ UNCHANGED <<svcVars, pageVars, getVars, waitVars, s_pc, message, image_path, probe_visible,
                   target_selector, target_send_selector, input_value, input_readable,
                   textarea_val, page_log, click_outcome, probed_send, send_failures,
                   upload_outcome, send_result>>

\* the browser connection drops while the call runs
SendConnectionDrops ==
    /\ InSend
    /\ page_ok
    /\ page_ok' = FALSE
    /\ UNCHANGED <<svcVars, dom, generating, now, getVars, waitVars, sendVars>>

SendNext ==
    \/ SendMessageCall
    \/ ResolveInput
    \/ FillMessage
    \/ UploadImage
    \/ PressEnter
    \/ CheckTextarea
    \/ ProbeSendControl
    \/ ClickSend
    \/ FileChanges
    \/ SendConnectionDrops

SpecSend == SendInit /\ [][SendNext]_vars

-----------------------------------------------------------------------------
(* Properties of send_message, checked under SpecSend *)

SendReturned == s_pc = "done"
Logged(action) == \E i \in 1..Len(page_log) : page_log[i] = action
\* line 94 ran, so lines 98-105 ran or are about to
Entered == Logged("enter")
AfterResolve == s_pc \notin {"idle", "resolve"}
AfterCheck == s_pc \in {"fallback", "click"} \/ (SendReturned /\ Entered)
\* the read after Enter showed no text left in the input
InputObservedCleared == Entered /\ Strip(textarea_val) = <<>>
LowestVisible(target, visible) == target \in visible /\ \A j \in visible : target <= j

\* C6: send_message returns True only if a positive acceptance signal was
\* observed: the input was observed cleared after Enter, or a fallback click on a
\* resolved send control executed without throwing; with the input not cleared
\* and no control resolved, or the click throwing, it returns False.
C6_TrueOnlyOnAcceptanceSignal ==
    SendReturned =>
        /\ send_result = "True" => (InputObservedCleared \/ click_outcome = "ok")
        /\ (Entered /\ ~InputObservedCleared /\ click_outcome # "ok") => send_result = "False"

\* C7: when the input is observed empty after Enter, send_message returns True
\* and neither probes nor clicks a send control; the fallback is attempted only
\* when the input still holds non-blank text after Enter.
C7_FallbackOnlyWhenTextLeft ==
    /\ (AfterCheck /\ Strip(textarea_val) = <<>>) =>
        /\ SendReturned
        /\ send_result = "True"
        /\ ~probed_send
        /\ target_send_selector = 0
        /\ click_outcome = "-"
        /\ ~Logged("click")
    /\ (s_pc \in {"fallback", "click"} \/ probed_send \/ click_outcome # "-" \/ Logged("click")) =>
        /\ Entered
        /\ input_readable
        /\ textarea_val = input_value
        /\ Strip(input_value) # <<>>

\* C7 witness: a non-blank message was typed, Enter cleared the input, and the
\* call returned True without a probe of the send controls
C7_Witness ==
    /\ SendReturned
    /\ send_result = "True"
    /\ Strip(message) # <<>>
    /\ Entered
    /\ input_readable
    /\ page_ok
    /\ textarea_val = <<>>
    /\ ~probed_send

\* C8: over a fixed visibility assignment with at least one visible candidate,
\* each probe loop of send_message (input selectors, send-control selectors)
\* chooses the visible candidate of lowest index, which makes the choice a
\* function of the assignment.
C8_ProbeChoosesFirstVisible ==
    /\ (AfterResolve /\ ~probed_send /\ probe_visible # {}) =>
        LowestVisible(target_selector, probe_visible)
    /\ (probed_send /\ probe_visible # {}) =>
        LowestVisible(target_send_selector, probe_visible)

\* C8 witness: the send-control loop passed over an invisible first candidate and
\* chose one that has a later visible candidate behind it
C8_Witness ==
    /\ probed_send
    /\ target_send_selector >= 2
    /\ \E j \in probe_visible : j > target_send_selector
    /\ target_selector >= 2

\* C9: if no input candidate becomes visible, send_message returns False and has
\* performed no typing, no file upload, no Enter keypress and no click.
C9_NoInputNoPageAction ==
    /\ (AfterResolve /\ ~probed_send /\ probe_visible = {}) =>
        /\ target_selector = 0
        /\ SendReturned
    /\ (AfterResolve /\ target_selector = 0) =>
        /\ SendReturned
        /\ send_result = "False"
        /\ page_log = <<>>
        /\ click_outcome = "-"
        /\ ~probed_send

\* C9 witness: a live page with no visible input candidate, and a message to send
C9_Witness ==
    /\ SendReturned
    /\ page_ok
    /\ probe_visible = {}
    /\ target_selector = 0
    /\ Strip(message) # <<>>
    /\ image_path # ""
    /\ send_result = "False"

-----------------------------------------------------------------------------
(* One turn of the handler against a scripted page:                        *)
(*   send_message(text); wait_for_response(); get_latest_response()        *)
(* The script: the input is visible, and once the page has accepted a      *)
(* message it shows the generating indicator for a while and then, in one  *)
(* step, hides it and shows a bubble that holds exactly the message.       *)

MaxScriptSeconds == 3   \* the script hides the indicator no later than this

\* the latest time a turn is followed to: the script, then the polls that settle
TurnHorizon == MaxScriptSeconds + GraceSeconds + (StableTicksRequired + 1) * PollSeconds

\* what the script lets the probe loops see: nothing, or two later candidates
ScriptedVisible == {{}, {2, 3}}

\* the page took the message: Enter cleared a filled input, or the click went through
Submitted ==
    \/ /\ Logged("enter")
       /\ message # <<>>
       /\ input_readable
       /\ input_value = <<>>
    \/ click_outcome = "ok"

Echoed == dom # <<>>

\* a bubble holding exactly the text t
EchoBubbles(t) == [kind : 0..NumAlternatives, shape : Shapes, text : {t}]

TurnInit == SendInit

TurnResolveInput == ResolveInputOver(ScriptedVisible)
TurnProbeSendControl == ProbeSendControlOver(ScriptedVisible)

\* the script: the accepted message starts the reply
ScriptStartsGenerating ==
    /\ s_pc = "done"
    /\ send_result = "True"
    /\ Submitted
    /\ w_pc = "idle"
    /\ ~generating
    /\ ~Echoed
    /\ generating' = TRUE
    /\ UNCHANGED <<svcVars, dom, page_ok, now, getVars, waitVars, sendVars>>

\* the caller goes on to wait_for_response() with its default arguments
TurnWaitForResponse ==
    /\ s_pc = "done"
    /\ send_result = "True"
    /\ Submitted => generating
    /\ WaitForResponseCallOver({DefaultTimeout}, {TRUE})

TurnTick ==
    /\ generating => now < MaxScriptSeconds
    /\ now < TurnHorizon
    /\ Tick

\* the script: the reply is complete
ScriptFinishes ==
    /\ Sleeping
    /\ generating
    /\ generating' = FALSE
    /\ \E e \in EchoBubbles(message) :
        /\ dom' = <<e>>
        /\ quiet_since' = IF QuietNow(FALSE, <<e>>, page_ok) THEN now ELSE -1
    /\ UNCHANGED <<svcVars, page_ok, now, getVars, sendVars, w_pc, timeout, stability_check, start_time,
                   last_text, stable_count, wake_at, wait_result, exit_reason, polls>>

\* the caller goes on to get_latest_response()
TurnGetLatestResponse ==
    /\ w_pc = "done"
    /\ ~response.called
    /\ GetLatestResponseCall

TurnNext ==
    \/ SendMessageCall
    \/ TurnResolveInput
    \/ FillMessage
    \/ UploadImage
    \/ PressEnter
    \/ CheckTextarea
    \/ TurnProbeSendControl
    \/ ClickSend
    \/ ScriptStartsGenerating
    \/ TurnWaitForResponse
    \/ TurnTick
    \/ ScriptFinishes
    \/ PollGenerating
    \/ PollAbsentRead
    \/ TurnGetLatestResponse

SpecTurn == TurnInit /\ [][TurnNext]_vars

TurnComplete == response.called /\ Echoed

\* C11: against the scripted page, send_message(text); wait_for_response();
\* get_latest_response() returns exactly the submitted text.
C11_RoundTripReturnsText ==
    TurnComplete => response.value = Some(message)

\* C11 amended: the turn returns the submitted text without its leading and
\* trailing whitespace, which is the text itself when it has none.
C11_RoundTripReturnsStrippedText ==
    TurnComplete =>
        /\ ~response.raised
        /\ response.value = Some(Strip(message))
        /\ (Strip(message) = message) => response.value = Some(message)

\* C11 witness: a turn with a text of two characters, sent with the indicator
\* seen by a poll, came back with the text
C11_Witness ==
    /\ TurnComplete
    /\ message = <<"a", "a">>
    /\ response.value = Some(message)
    /\ \E i \in 1..Len(polls) : polls[i].gen
    /\ exit_reason = "stable"

-----------------------------------------------------------------------------
(* The chat store  (core/data_manager.py 52-131)                           *)
(* A chat row is [id, chat_id]; a message row is [chat, role, by], chat    *)
(* being the primary key of its chat row and `by` the request or turn that *)
(* stored it.                                                              *)

\* `where(or_(Chat.chat_id == x, Chat.id == x))`
ChatsMatching(cs, x) == {c \in cs : c.chat_id = x \/ c.id = x}

StoreState(cs, ms, raised) == [chats |-> cs, messages |-> ms, raised |-> raised]

\* the chat row made or found, and no message stored
SaveChatMessage_ChatOnly(cs, ms, chat_id, role, by) ==
    LET found == ChatsMatching(cs, chat_id)
    IN StoreState(IF found = {} THEN cs \cup {[id |-> RowIdFor(by, role), chat_id |-> chat_id]}
                  ELSE cs,
                  ms, Cardinality(found) > 1)

\* data_manager.py 52-93; scalar_one_or_none raises on more than one row
SaveChatMessage(cs, ms, chat_id, role, by) ==
    LET found == ChatsMatching(cs, chat_id)
    IN IF Cardinality(found) > 1 THEN StoreState(cs, ms, TRUE)
       ELSE LET db_chat == IF found = {} THEN [id |-> RowIdFor(by, role), chat_id |-> chat_id]
                           ELSE CHOOSE c \in found : TRUE
                new_msg == [chat |-> db_chat.id, role |-> role, by |-> by]
            IN StoreState(cs \cup {db_chat}, ms \cup {new_msg}, FALSE)

\* the old record deleted whether or not the record found for new_id is another one
IsOtherRecord_Always(existing_chat, old_chat) == TRUE

\* line 117: `if existing_chat.id != old_chat.id:`
IsOtherRecord(existing_chat, old_chat) == existing_chat.id # old_chat.id

\* the messages of the old record deleted together with it
MovedMessages_Deleted(ms, old_chat, existing_chat) == {m \in ms : m.chat # old_chat.id}

\* lines 118-121: every message of the old record is given to the existing one
MovedMessages(ms, old_chat, existing_chat) ==
    {IF m.chat = old_chat.id THEN [m EXCEPT !.chat = existing_chat.id] ELSE m : m \in ms}

\* data_manager.py 95-131
UpdateChatId(cs, ms, old_id, new_id) ==
    IF old_id = new_id THEN StoreState(cs, ms, FALSE)
    ELSE LET olds == ChatsMatching(cs, old_id)
             existing == {c \in cs : c.chat_id = new_id}
         IN IF Cardinality(olds) > 1 \/ Cardinality(existing) > 1
            THEN StoreState(cs, ms, TRUE)
            ELSE IF olds = {} THEN StoreState(cs, ms, FALSE)
            ELSE LET old_chat == CHOOSE c \in olds : TRUE
                 IN IF existing # {}
                    THEN LET existing_chat == CHOOSE c \in existing : TRUE
                         IN IF IsOtherRecord(existing_chat, old_chat)
                            THEN StoreState(
                                    cs \ {old_chat},
                                    MovedMessages(ms, old_chat, existing_chat),
                                    FALSE)
                            ELSE StoreState(cs, ms, FALSE)
                    ELSE StoreState((cs \ {old_chat}) \cup {[old_chat EXCEPT !.chat_id = new_id]},
                                    ms, FALSE)

\* the store takes the state st
StoreBecomes(st) ==
    /\ chats' = st.chats
    /\ messages' = st.messages

-----------------------------------------------------------------------------
(* The pooled /chat endpoint  (main.py 40-67, 190-272)                     *)
(* A handler operation is one step here, with the results the operation    *)
(* can give.                                                               *)

\* Python truth of an optional text
Truthy(opt) == ~opt.none /\ opt.val # <<>>

\* what send_message can give its caller: its result, and whether it got as far
\* as typing the text (lines 59-62 lie before every `return True`)
SendOutcomes ==
    {[ok |-> TRUE, typed |-> TRUE], [ok |-> FALSE, typed |-> TRUE],
     [ok |-> FALSE, typed |-> FALSE]}

\* what get_latest_response can give its caller
ReplyResults == {GetLatestResponse(d, ok) : d \in WaitDoms, ok \in BOOLEAN}

\* class DeepSeekChatHandler defines __init__, send_message, wait_for_response
\* and get_latest_response only: `handler.get_chat_title` is an AttributeError
HasGetChatTitle == FALSE

\* the callers going on after send_message whatever it returned
ProceedsAfterSend_Always(success) == TRUE

\* main.py 244 and 360 `if success:`, api_main.py 145 `if not success:`
ProceedsAfterSend(success) == success

\* line 193 as a get_nowait that rejects the request when the pool is empty
OnEmptyPool_Reject == "reject"

\* line 193: `await api_state.handler_pool.get()` suspends while the pool is empty
OnEmptyPool == "suspend"

\* lines 270-272 without the put_nowait
PoolAfterRelease_Dropped(p, h) == p

\* lines 270-272: `finally: api_state.handler_pool.put_nowait(handler)`
PoolAfterRelease(p, h) == Append(p, h)

\* the state of a handler no caller has used yet
HandlerIdle ==
    /\ dom = <<>>
    /\ page_ok = TRUE
    /\ generating = FALSE
    /\ now = 0
    /\ response = NotCalled
    /\ WaitIdle
    /\ SendIdle

\* main.py 47-61: the lifespan has queued the N handlers
PoolInit ==
    /\ HandlerIdle
    /\ BootDoneWith(PoolSize)
    /\ program = "pool"
    /\ pool = [h \in Handlers |-> h]
    /\ is_busy = FALSE
    /\ req = [r \in Requests |-> FreshRequest]
    /\ chats = {}
    /\ messages = {}
    /\ turns = 0

Issue(rq, op) == [rq EXCEPT !.calls = Append(@, op)]

\* what a /chat request can carry as its image: nothing, image_base64 that does
\* not decode, image_base64 that decodes, and that together with an image_path
Images == {"none", "bad", "base64", "base64_and_path"}

\* the steps of the pooled endpoint that lie inside the inner try (lines 242-265)
InInnerTry(pc) == pc \in {"send", "url", "wait", "get", "title"}

\* lines 266-269: the inner finally removes the temporary file, when the request
\* made one and it exists; only an exit from inside the inner try runs it
PoolFinally(rq) ==
    [rq EXCEPT !.temp_file = IF InInnerTry(rq.pc) /\ @ = "exists" THEN "removed" ELSE @]

\* the request leaves the endpoint through the finally clauses (lines 266-272)
PoolExit(r, rq, status) ==
    /\ req' = [req EXCEPT ![r] = [PoolFinally(rq) EXCEPT
                                     !.pc = "done", !.status = status, !.handler = 0]]
    /\ pool' = PoolAfterRelease(pool, req[r].handler)

\* lines 191-193: the request arrives; get() returns at once when a handler is queued
PoolArriveOver(r, msgs, args) ==
    /\ program = "pool"
    /\ req[r].pc = "new"
    /\ \E m \in msgs, a \in args :
        LET rq == [req[r] EXCEPT !.message = m, !.chat_arg = a]
        IN IF pool # <<>>
           THEN /\ req' = [req EXCEPT ![r] = [rq EXCEPT !.pc = "prepare", !.handler = Head(pool)]]
                /\ pool' = Tail(pool)
           ELSE /\ req' = [req EXCEPT ![r] =
                            IF OnEmptyPool = "suspend"
                            THEN [rq EXCEPT !.pc = "acquire", !.suspended = TRUE]
                            ELSE [rq EXCEPT !.pc = "done", !.status = "rejected"]]
                /\ UNCHANGED pool
    /\ UNCHANGED <<handlerVars, bootVars, program, is_busy, chats, messages, turns>>

\* line 193: a suspended get() resumes when a handler is queued
PoolAcquire(r) ==
    /\ program = "pool"
    /\ req[r].pc = "acquire"
    /\ pool # <<>>
    /\ req' = [req EXCEPT ![r].pc = "prepare", ![r].handler = Head(pool)]
    /\ pool' = Tail(pool)
    /\ UNCHANGED <<handlerVars, bootVars, program, is_busy, chats, messages, turns>>

\* lines 196-199 and 228-238: where the page stands after the navigation of
\* the endpoint. "new" goes to the home page; a chat id whose row is found goes
\* to the page of that row's chat_id (every id is shorter than the 40 of line
\* 234); a request without chat_id is not navigated at all
Navigated(url, chat_arg, found) ==
    IF chat_arg = NewChat THEN NoId
    ELSE IF chat_arg # NoId /\ found # {} THEN (CHOOSE c \in found : TRUE).chat_id
    ELSE url

\* lines 195-240: the chat id, the image, the navigation, and the user message
\* stored. Line 215 opens the temporary file before line 216 decodes the data,
\* so image_base64 that does not decode leaves a file too, and raises (218).
\* A raise of the navigation (238) or of the store (240) comes after the file
\* was made; each of these raises is outside the inner try and leaves through
\* the outer finally only.
PoolPrepareWith(r, raises, images) ==
    /\ program = "pool"
    /\ req[r].pc = "prepare"
    /\ \E raised \in raises, image \in images :
        LET chat_uuid == IF req[r].chat_arg \in {NoId, NewChat} THEN Uuid(r)
                         ELSE req[r].chat_arg
            st == SaveChatMessage(chats, messages, chat_uuid, "user", r)
            rq == [req[r] EXCEPT !.chat_uuid = chat_uuid, !.saved_as = chat_uuid,
                                 !.image = image,
                                 !.temp_file = IF image = "none" THEN "-" ELSE "exists"]
            found == ChatsMatching(chats, req[r].chat_arg)
        IN IF image = "bad" \/ raised \/ st.raised
           THEN PoolExit(r, rq, "error") /\ UNCHANGED <<chats, messages, page_url>>
           ELSE /\ req' = [req EXCEPT ![r] = [rq EXCEPT !.pc = "send"]]
                /\ StoreBecomes(st)
                /\ page_url' = [page_url EXCEPT ![req[r].handler] =
                                  Navigated(@, req[r].chat_arg, found)]
                /\ UNCHANGED pool
    /\ UNCHANGED <<handlerVars, b_pc, handlers, pages_opened, storage_exists, auth_log,
                   program, is_busy, turns>>

\* the requests that carry no image
PoolPrepareOver(r, raises) == PoolPrepareWith(r, raises, {"none"})

\* lines 243-244 and 265: send_message; False raises HTTPException(500)
PoolSendOver(r, outcomes) ==
    /\ program = "pool"
    /\ req[r].pc = "send"
    /\ \E o \in outcomes :
        LET rq == [Issue(req[r], "send_message") EXCEPT
                      !.success = IF o.ok THEN "True" ELSE "False", !.typed = o.typed]
        IN IF ProceedsAfterSend(o.ok)
           THEN req' = [req EXCEPT ![r] = [rq EXCEPT !.pc = "url"]] /\ UNCHANGED pool
           ELSE PoolExit(r, rq, "error")
    /\ UNCHANGED <<handlerVars, bootVars, program, is_busy, chats, messages, turns>>

\* lines 245-249: the chat id of the page URL replaces the temporary one
PoolUrlOver(r, reals) ==
    /\ program = "pool"
    /\ req[r].pc = "url"
    /\ \E real \in reals :
        LET st == UpdateChatId(chats, messages, req[r].chat_uuid, real)
            rq == [req[r] EXCEPT !.real = real]
        IN IF real = NoId
           THEN /\ req' = [req EXCEPT ![r] = [rq EXCEPT !.pc = "wait"]]
                /\ UNCHANGED <<pool, chats, messages>>
           ELSE IF st.raised
           THEN PoolExit(r, rq, "error") /\ UNCHANGED <<chats, messages>>
           ELSE /\ req' = [req EXCEPT ![r] = [rq EXCEPT !.pc = "wait", !.chat_uuid = real]]
                /\ StoreBecomes(st)
                /\ UNCHANGED pool
    /\ UNCHANGED <<handlerVars, bootVars, program, is_busy, turns>>

\* line 251: wait_for_response ends in one of the given ways; its result,
\* WaitReturnValue of that way, is not looked at
PoolWaitOver(r, exits) ==
    /\ program = "pool"
    /\ req[r].pc = "wait"
    /\ \E reason \in exits :
        req' = [req EXCEPT ![r] = [Issue(req[r], "wait_for_response") EXCEPT
                                      !.pc = "get", !.wait_exit = reason]]
    /\ UNCHANGED <<handlerVars, bootVars, program, pool, is_busy, chats, messages, turns>>

PoolWait(r) == PoolWaitOver(r, {"stable"})

\* line 252: get_latest_response
PoolGetOver(r, results) ==
    /\ program = "pool"
    /\ req[r].pc = "get"
    /\ \E v \in results :
        req' = [req EXCEPT ![r] = [Issue(req[r], "get_latest_response") EXCEPT
                                      !.pc = "title", !.response_text = v]]
    /\ UNCHANGED <<handlerVars, bootVars, program, pool, is_busy, chats, messages, turns>>

\* lines 255-263: the title, the assistant message stored, and the response
PoolFinish(r) ==
    /\ program = "pool"
    /\ req[r].pc = "title"
    /\ LET st == SaveChatMessage(chats, messages, req[r].chat_uuid, "assistant", r)
       IN IF ~HasGetChatTitle
          THEN PoolExit(r, req[r], "error") /\ UNCHANGED <<chats, messages>>
          ELSE IF ~Truthy(req[r].response_text)
          THEN PoolExit(r, req[r], "error") /\ UNCHANGED <<chats, messages>>
          ELSE IF st.raised
          THEN PoolExit(r, req[r], "error") /\ UNCHANGED <<chats, messages>>
          ELSE /\ PoolExit(r, [req[r] EXCEPT !.out_chat_id = req[r].chat_uuid], "success")
               /\ StoreBecomes(st)
    /\ UNCHANGED <<handlerVars, bootVars, program, is_busy, turns>>

\* N + 1 requests with one text and no chat id
PoolNext ==
    \E r \in Requests :
        \/ PoolArriveOver(r, {<<"a">>}, {NoId})
        \/ PoolAcquire(r)
        \/ PoolPrepareOver(r, BOOLEAN)
        \/ PoolSendOver(r, {o \in SendOutcomes : o.typed})
        \/ PoolUrlOver(r, {NoId})
        \/ PoolWait(r)
        \/ PoolGetOver(r, {None})
        \/ PoolFinish(r)

SpecPool == PoolInit /\ [][PoolNext]_vars

\* the requests inside their turn, and the handlers they hold
Executing == {r \in Requests : req[r].pc \notin {"new", "acquire", "done"}}
Holding == {r \in Requests : req[r].handler # 0}
HeldHandlers == {req[r].handler : r \in Holding}
Queued == {pool[i] : i \in 1..Len(pool)}

\* C12: with N handlers in the pool, a request that arrives while a handler is
\* queued starts its turn at once; one that arrives when all N are held (the
\* (N+1)th of N+1 concurrent requests) is suspended in the acquisition, is never
\* rejected, and leaves the acquisition only by taking a handler that was put back.
C12_ExtraRequestWaitsForRelease ==
    /\ [](\A r \in Requests :
            /\ req[r].status # "rejected"
            /\ req[r].pc = "acquire" => (req[r].status = "-" /\ req[r].handler = 0)
            /\ Cardinality(Executing) <= PoolSize)
    /\ [][\A r \in Requests :
            /\ (req[r].pc = "new" /\ req'[r].pc # "new") =>
                IF pool # <<>>
                THEN req'[r].pc = "prepare" /\ req'[r].handler = Head(pool)
                ELSE /\ req'[r].pc = "acquire"
                     /\ Cardinality(Executing) = PoolSize
            /\ (req[r].pc = "acquire" /\ req'[r].pc # "acquire") =>
                /\ pool # <<>>
                /\ req'[r].pc = "prepare"
                /\ req'[r].handler = Head(pool)]_vars

\* C12 witness: all N handlers are held by executing turns, and one more request
\* is suspended in the acquisition
C12_Witness ==
    /\ pool = <<>>
    /\ Cardinality(Executing) = PoolSize
    /\ \E r \in Requests : req[r].pc = "acquire"

\* C13: in every reachable state of the pooled service no handler is held by two
\* turns, at most N turns are executing, and the handlers in the pool plus the
\* handlers held by executing turns are exactly the N handlers, each once.
C13_HandlersConserved ==
    /\ \A r1, r2 \in Holding : req[r1].handler = req[r2].handler => r1 = r2
    /\ Holding = Executing
    /\ Cardinality(Executing) <= PoolSize
    /\ Len(pool) + Cardinality(Holding) = PoolSize
    /\ Cardinality(Queued) = Len(pool)
    /\ Queued \cap HeldHandlers = {}
    /\ Queued \cup HeldHandlers = Handlers

\* C13 witness: a turn has ended in an error and given its handler back, a request
\* that had been suspended holds a handler, and a handler is queued
C13_Witness ==
    /\ \E r \in Requests : req[r].pc = "done" /\ req[r].status = "error"
    /\ \E r \in Holding : req[r].suspended
    /\ pool # <<>>

-----------------------------------------------------------------------------
(* The single-handler /chat endpoint  (api_main.py 99-170) *)

\* the busy test left out
Rejects_Never(busy) == FALSE

\* line 104: `if state.is_busy: raise HTTPException(status_code=503, ...)`
Rejects(busy) == busy

\* lines 163-170: the finally removes the temporary file, when the request
\* made one and it exists
SingleFinally(rq) == [rq EXCEPT !.temp_file = IF @ = "exists" THEN "removed" ELSE @]

\* lines 104-132: the busy test, the flag set, and the image decoded (119) and
\* then written to a temporary file (124-125); nothing awaits between the test
\* of line 104 and the call of line 144
SingleArriveWith(r, msgs, images) ==
    /\ program = "single"
    /\ req[r].pc = "new"
    /\ \E m \in msgs, image \in images :
        LET rq == [req[r] EXCEPT !.message = m]
            bad_image == image = "bad"
            made == [rq EXCEPT !.image = image,
                               !.temp_file = IF image \in {"none", "bad"} THEN "-" ELSE "exists"]
        IN IF Rejects(is_busy)
           THEN /\ req' = [req EXCEPT ![r] = [rq EXCEPT !.pc = "done", !.status = "rejected"]]
                /\ UNCHANGED is_busy
           ELSE IF handlers = <<>>
           THEN /\ req' = [req EXCEPT ![r] = [rq EXCEPT !.pc = "done", !.status = "error"]]
                /\ UNCHANGED is_busy
           ELSE IF bad_image
           THEN /\ req' = [req EXCEPT ![r] = [SingleFinally(made) EXCEPT
                                                 !.pc = "done", !.status = "error"]]
                /\ is_busy' = FALSE
           ELSE /\ req' = [req EXCEPT ![r] = [made EXCEPT !.pc = "send"]]
                /\ is_busy' = TRUE
    /\ UNCHANGED <<handlerVars, bootVars, program, pool, chats, messages, turns>>

\* the requests that carry no image or one that does not decode
SingleArriveOver(r, msgs) == SingleArriveWith(r, msgs, {"none", "bad"})

\* lines 144-147: send_message; False ends the request with status "error"
SingleSendOver(r, outcomes) ==
    /\ program = "single"
    /\ req[r].pc = "send"
    /\ \E o \in outcomes :
        LET rq == [Issue(req[r], "send_message") EXCEPT
                      !.success = IF o.ok THEN "True" ELSE "False", !.typed = o.typed]
        IN IF ProceedsAfterSend(o.ok)
           THEN req' = [req EXCEPT ![r] = [rq EXCEPT !.pc = "wait"]] /\ UNCHANGED is_busy
           ELSE /\ req' = [req EXCEPT ![r] = [SingleFinally(rq) EXCEPT
                                                 !.pc = "done", !.status = "error"]]
                /\ is_busy' = FALSE
    /\ UNCHANGED <<handlerVars, bootVars, program, pool, chats, messages, turns>>

\* line 150: wait_for_response ends in one of the given ways; its result is
\* not looked at
SingleWaitOver(r, exits) ==
    /\ program = "single"
    /\ req[r].pc = "wait"
    /\ \E reason \in exits :
        req' = [req EXCEPT ![r] = [Issue(req[r], "wait_for_response") EXCEPT
                                      !.pc = "get", !.wait_exit = reason]]
    /\ UNCHANGED <<handlerVars, bootVars, program, pool, is_busy, chats, messages, turns>>

SingleWait(r) == SingleWaitOver(r, {"stable"})

\* lines 151-158: get_latest_response, then the response, whatever was read
SingleGetOver(r, results, reals) ==
    /\ program = "single"
    /\ req[r].pc = "get"
    /\ \E v \in results, real \in reals :
        req' = [req EXCEPT ![r] = [SingleFinally(Issue(req[r], "get_latest_response")) EXCEPT
                                      !.pc = "done", !.response_text = v, !.real = real,
                                      !.status = "success", !.out_chat_id = real]]
    /\ is_busy' = FALSE
    /\ UNCHANGED <<handlerVars, bootVars, program, pool, chats, messages, turns>>

-----------------------------------------------------------------------------
(* The CLI loop  (main.py 291-393); its turns run in request slot 1 *)

Cli == 1

\* line 342: the words that end the loop
ExitWords == {<<"e", "x", "i", "t">>, <<"q", "u", "i", "t">>,
              <<"k", "e", "l", "u", "a", "r">>}

\* str.lower(), over the letters the input lines are made of
LowerChar(c) == IF c = "E" THEN "e" ELSE IF c = "A" THEN "a" ELSE c
Lower(s) == [i \in 1..Len(s) |-> LowerChar(s[i])]

\* the lines typed at the prompt
CliInputs == {<<>>, <<" ">>, <<" ", "a">>, <<"A", " ">>, <<"E", "x", "i", "t">>}

\* line 348: `len(chat_uuid) > 30`; a uuid4 has 36 characters, and so has a chat
\* id of the host that is itself a uuid (RealId(2)); RealId(1) is a short one
IsLong(id) == id.kind \in {"uuid", "row"} \/ (id.kind = "real" /\ id.n = 2)

\* lines 338-357: one line is read; an exit word ends the loop, an empty line is
\* skipped, anything else begins a turn: navigation, and the user message stored
CliReadOver(inputs) ==
    /\ program = "cli"
    /\ req[Cli].pc = "new"
    /\ turns < MaxTurns
    /\ \E raw \in inputs, raised \in BOOLEAN :
        LET user_message == Strip(raw)
            st == SaveChatMessage(chats, messages, req[Cli].chat_uuid, "user", turns + 1)
            rq == [req[Cli] EXCEPT !.message = user_message, !.calls = <<>>,
                                  !.success = "-", !.typed = FALSE, !.real = NoId,
                                  !.response_text = None, !.status = "-",
                                  !.saved_as = req[Cli].chat_uuid]
        IN IF Lower(user_message) \in ExitWords
           THEN /\ req' = [req EXCEPT ![Cli].pc = "exited"]
                /\ UNCHANGED <<chats, messages, turns>>
           ELSE IF user_message = <<>>
           THEN UNCHANGED <<req, chats, messages, turns>>
           ELSE IF raised \/ st.raised
           THEN /\ req' = [req EXCEPT ![Cli] = [rq EXCEPT !.pc = "crashed", !.status = "error"]]
                /\ turns' = turns + 1
                /\ UNCHANGED <<chats, messages>>
           ELSE /\ req' = [req EXCEPT ![Cli] = [rq EXCEPT !.pc = "send"]]
                /\ turns' = turns + 1
                /\ StoreBecomes(st)
    /\ UNCHANGED <<handlerVars, bootVars, program, pool, is_busy>>

\* lines 358-360 and 392: send_message; False is printed and the loop goes on
CliSendOver(outcomes) ==
    /\ program = "cli"
    /\ req[Cli].pc = "send"
    /\ \E o \in outcomes :
        LET rq == [Issue(req[Cli], "send_message") EXCEPT
                      !.success = IF o.ok THEN "True" ELSE "False", !.typed = o.typed]
        IN req' = [req EXCEPT ![Cli] =
                      IF ProceedsAfterSend(o.ok) THEN [rq EXCEPT !.pc = "url"]
                      ELSE [rq EXCEPT !.pc = "new", !.status = "error"]]
    /\ UNCHANGED <<handlerVars, bootVars, program, pool, is_busy, chats, messages, turns>>

\* lines 362-376: the chat id of the page URL; the row is renamed only when the
\* current id is a temporary one
CliUrlOver(reals) ==
    /\ program = "cli"
    /\ req[Cli].pc = "url"
    /\ \E real \in reals :
        LET chat_uuid == req[Cli].chat_uuid
            is_new_chat == IsLong(chat_uuid)
            st == UpdateChatId(chats, messages, chat_uuid, real)
            rq == [req[Cli] EXCEPT !.real = real]
        IN IF real = NoId \/ real = chat_uuid
           THEN /\ req' = [req EXCEPT ![Cli] = [rq EXCEPT !.pc = "wait"]]
                /\ UNCHANGED <<chats, messages>>
           ELSE IF ~is_new_chat
           THEN /\ req' = [req EXCEPT ![Cli] = [rq EXCEPT !.pc = "wait", !.chat_uuid = real]]
                /\ UNCHANGED <<chats, messages>>
           ELSE IF st.raised
           THEN /\ req' = [req EXCEPT ![Cli] = [rq EXCEPT !.pc = "crashed", !.status = "error"]]
                /\ UNCHANGED <<chats, messages>>
           ELSE /\ req' = [req EXCEPT ![Cli] = [rq EXCEPT !.pc = "wait", !.chat_uuid = real]]
                /\ StoreBecomes(st)
    /\ UNCHANGED <<handlerVars, bootVars, program, pool, is_busy, turns>>

\* line 378: wait_for_response
CliWait ==
    /\ program = "cli"
    /\ req[Cli].pc = "wait"
    /\ req' = [req EXCEPT ![Cli] = [Issue(req[Cli], "wait_for_response") EXCEPT !.pc = "get"]]
    /\ UNCHANGED <<handlerVars, bootVars, program, pool, is_busy, chats, messages, turns>>

\* line 379: get_latest_response
CliGetOver(results) ==
    /\ program = "cli"
    /\ req[Cli].pc = "get"
    /\ \E v \in results :
        req' = [req EXCEPT ![Cli] = [Issue(req[Cli], "get_latest_response") EXCEPT
                                        !.pc = "title", !.response_text = v]]
    /\ UNCHANGED <<handlerVars, bootVars, program, pool, is_busy, chats, messages, turns>>

\* lines 382-390: the title, and the assistant message stored; the raise of
\* line 382 leaves run_chat_mode
CliFinish ==
    /\ program = "cli"
    /\ req[Cli].pc = "title"
    /\ LET st == SaveChatMessage(chats, messages, req[Cli].chat_uuid, "assistant", turns)
       IN IF ~HasGetChatTitle
          THEN /\ req' = [req EXCEPT ![Cli].pc = "crashed", ![Cli].status = "error"]
               /\ UNCHANGED <<chats, messages>>
          ELSE IF ~Truthy(req[Cli].response_text)
          THEN /\ req' = [req EXCEPT ![Cli].pc = "new", ![Cli].status = "error"]
               /\ UNCHANGED <<chats, messages>>
          ELSE IF st.raised
          THEN /\ req' = [req EXCEPT ![Cli].pc = "crashed", ![Cli].status = "error"]
               /\ UNCHANGED <<chats, messages>>
          ELSE /\ req' = [req EXCEPT ![Cli].pc = "new", ![Cli].status = "success",
                                     ![Cli].out_chat_id = req[Cli].chat_uuid]
               /\ StoreBecomes(st)
    /\ UNCHANGED <<handlerVars, bootVars, program, pool, is_busy, turns>>

-----------------------------------------------------------------------------
(* The three callers in one specification: the program that runs is chosen *)
(* at the start; two requests are followed through an endpoint.            *)

CallerRequests == {1, 2}

\* the texts a client posts
ServiceMessages == {<<" ">>, <<"a">>}

\* a chat stored by an earlier run, under a chat id of the host
EarlierChat == [id |-> RowId(0), chat_id |-> RealId(1)]

\* the chat ids a page URL can show after a send (NoId: none)
UrlIds == {NoId, RealId(1), RealId(2)}

\* main.py 47-61, api_main.py 28-33, main.py 291-335 (the CLI resumes the last
\* chat or starts with a uuid4)
CallersInit ==
    /\ HandlerIdle
    /\ program \in {"pool", "single", "cli"}
    /\ BootDoneWith(IF program = "pool" THEN PoolSize ELSE 1)
    /\ pool = IF program = "pool" THEN [h \in Handlers |-> h] ELSE <<>>
    /\ is_busy = FALSE
    /\ chats \in IF program = "single" THEN {{}} ELSE {{}, {EarlierChat}}
    /\ messages = {}
    /\ turns = 0
    /\ req = [r \in Requests |->
                IF program = "cli" /\ r = Cli
                THEN [FreshRequest EXCEPT
                         !.chat_uuid = IF chats = {} THEN Uuid(0) ELSE EarlierChat.chat_id]
                ELSE FreshRequest]

CallersNext ==
    \/ \E r \in CallerRequests :
        \/ PoolArriveOver(r, ServiceMessages, {NoId, NewChat, RealId(1)})
        \/ PoolPrepareOver(r, BOOLEAN)
        \/ PoolSendOver(r, SendOutcomes)
        \/ PoolUrlOver(r, UrlIds)
        \/ PoolWait(r)
        \/ PoolGetOver(r, ReplyResults)
        \/ PoolFinish(r)
        \/ SingleArriveOver(r, ServiceMessages)
        \/ SingleSendOver(r, SendOutcomes)
        \/ SingleWait(r)
        \/ SingleGetOver(r, ReplyResults, UrlIds)
    \/ CliReadOver(CliInputs)
    \/ CliSendOver(SendOutcomes)
    \/ CliUrlOver(UrlIds)
    \/ CliWait
    \/ CliGetOver(ReplyResults)
    \/ CliFinish

SpecCallers == CallersInit /\ [][CallersNext]_vars

-----------------------------------------------------------------------------
(* Properties of the callers, checked under SpecCallers *)

TurnOperations == <<"send_message", "wait_for_response", "get_latest_response">>

Count(calls, op) == Cardinality({i \in 1..Len(calls) : calls[i] = op})
IsPrefix(s, t) == Len(s) <= Len(t) /\ s = SubSeq(t, 1, Len(s))
GotReply(r) == Count(req[r].calls, "get_latest_response") > 0

\* the request has been answered by one of the /chat endpoints
EndpointDone(r) == program \in {"pool", "single"} /\ req[r].pc = "done"

\* C16: in both /chat endpoints, whenever send_message returned False or
\* get_latest_response returned None or an empty text, the request ends with an
\* error response, never with status success, and send_message was called at
\* most once within the request.
C16_FailedTurnGivesErrorResponse ==
    \A r \in Requests :
        EndpointDone(r) =>
            /\ (req[r].success = "False" \/ (GotReply(r) /\ ~Truthy(req[r].response_text)))
                    => req[r].status # "success"
            /\ Count(req[r].calls, "send_message") <= 1

\* C17: in every turn of the /chat endpoints and of the CLI loop the handler
\* operations are issued in the order send_message, wait_for_response,
\* get_latest_response, each at most once, and the latter two are not issued
\* when send_message returned False.
C17_OperationsInOrder ==
    \A r \in Requests :
        /\ IsPrefix(req[r].calls, TurnOperations)
        /\ req[r].success = "False" => req[r].calls = <<"send_message">>
        /\ Len(req[r].calls) >= 2 => req[r].success = "True"
        /\ req[r].success # "-" => req[r].calls # <<>>

\* C17 witness: the pooled endpoint has one request whose turn issued all three
\* operations and one whose send_message returned False and that ended there
C17_Witness ==
    /\ program = "pool"
    /\ req[1].calls = TurnOperations
    /\ req[2].pc = "done"
    /\ req[2].success = "False"
    /\ req[2].calls = <<"send_message">>

\* C19: no message whose text is empty after trimming is submitted to the page:
\* every turn that reaches the typing step of send_message (CLI loop and both
\* /chat endpoints) carries a text that is non-empty after trimming.
C19_NoBlankTextTyped ==
    \A r \in Requests : req[r].typed => Strip(req[r].message) # <<>>

\* the request or turn a stored message belongs to
By(r) == IF program = "cli" THEN turns ELSE r

\* a message of that turn and role is stored in the chat row found under id
StoredUnder(by, role, id) ==
    \E c \in chats :
        /\ c.chat_id = id
        /\ [chat |-> c.id, role |-> role, by |-> by] \in messages

\* the turn stored its user message under a temporary id, sent it, and has read
\* a chat id from the page URL
RenamedTurn(r) ==
    /\ program \in {"pool", "cli"}
    /\ req[r].saved_as.kind = "uuid"
    /\ req[r].success = "True"
    /\ req[r].real # NoId
    /\ req[r].pc \in {"wait", "get", "title", "done", "crashed"}
    /\ req[r].pc = "crashed" => GotReply(r)

TurnOver(r) == req[r].pc \in {"done", "crashed"} \/ (req[r].pc = "new" /\ req[r].status # "-")

\* C20: after a successful send with a page URL of the form .../a/chat/s/<id>,
\* the chat row the turn's user message was stored under (keyed by a temporary
\* id) is found under <id>, the turn's assistant message is stored under <id>,
\* and the /chat response returns <id> as chat_id.
C20_TurnStoredUnderUrlId ==
    \A r \in Requests :
        RenamedTurn(r) =>
            /\ StoredUnder(By(r), "user", req[r].real)
            /\ (TurnOver(r) /\ Truthy(req[r].response_text)) =>
                /\ StoredUnder(By(r), "assistant", req[r].real)
                /\ program = "pool" =>
                    (req[r].status = "success" /\ req[r].out_chat_id = req[r].real)

\* the part of C20 that does hold: the step that reads <id> from the URL leaves
\* the turn's user message in the chat row found under <id>
UserMessageUnderUrlIdAtUrlStep ==
    [][\A r \in Requests :
        (req[r].pc = "url" /\ req'[r].pc = "wait" /\ req'[r].real # NoId
            /\ req[r].saved_as.kind = "uuid") =>
            \E c \in chats' :
                /\ c.chat_id = req'[r].real
                /\ [chat |-> c.id, role |-> "user", by |-> By(r)] \in messages']_vars

-----------------------------------------------------------------------------
(* The three handler operations in one specification: each behaviour       *)
(* follows one operation, from the pages that operation is studied on.     *)

HandlerInit == SendInit \/ WaitInit \/ GetInit

NoOperationBegun == s_pc = "idle" /\ w_pc = "idle" /\ ~response.called

HandlerSendMessageCall ==
    /\ NoOperationBegun
    /\ dom = <<>>
    /\ page_ok
    /\ ~generating
    /\ SendMessageCall

HandlerWaitForResponseCall ==
    /\ NoOperationBegun
    /\ dom \in WaitDoms
    /\ page_ok
    /\ WaitForResponseCall

HandlerGetNext ==
    /\ s_pc = "idle"
    /\ w_pc = "idle"
    /\ GetNext

HandlerNext ==
    \/ HandlerSendMessageCall
    \/ ResolveInput
    \/ FillMessage
    \/ UploadImage
    \/ PressEnter
    \/ CheckTextarea
    \/ ProbeSendControl
    \/ ClickSend
    \/ FileChanges
    \/ SendConnectionDrops
    \/ HandlerWaitForResponseCall
    \/ Tick
    \/ LoopTimeout
    \/ PollRaises
    \/ PollGenerating
    \/ PollAbsentBreak
    \/ PollAbsentRead
    \/ IndicatorAppears
    \/ IndicatorDisappears
    \/ ReplyRerendered
    \/ ConnectionDrops
    \/ HandlerGetNext

SpecHandler == HandlerInit /\ [][HandlerNext]_vars

Results == {"True", "False"}

\* C14: send_message, wait_for_response and get_latest_response never raise to
\* the caller for a UI-variance failure (a selector not visible, the input gone
\* before typing, the upload indicator missing, the click failing, no bubble
\* found): the call ends with a boolean, or None.
C14_UiFailuresNeverRaise ==
    /\ (SendReturned /\ "capability" \notin send_failures) => send_result \in Results
    /\ (Returned_ /\ exit_reason # "error") => wait_result \in Results
    /\ (response.called /\ page_ok) =>
        /\ ~response.raised
        /\ Bubbles(dom) = <<>> => response.value = None

\* C14 witness: a send on a live page that passed over the first input
\* candidate, saw no upload indicator, and whose fallback click failed
C14_Witness ==
    /\ SendReturned
    /\ page_ok
    /\ send_failures = {"ui"}
    /\ target_selector > 1
    /\ upload_outcome = "no_indicator"
    /\ click_outcome = "threw"
    /\ send_result = "True"

\* C15: a capability-level failure (the page or browser connection is gone, so
\* page calls raise) during send_message, wait_for_response or
\* get_latest_response reaches the caller as a raised error, distinct from the
\* False/None results of UI-variance failures.
C15_CapabilityFailuresPropagate ==
    /\ (SendReturned /\ "capability" \in send_failures) => send_result = "raised"
    /\ (Returned_ /\ exit_reason = "error") => wait_result = "raised"
    /\ (response.called /\ ~page_ok) => response.raised

-----------------------------------------------------------------------------
(* The attachment step of send_message, checked under SpecSend *)

AttachmentProblems == {"missing", "no_control", "raised", "no_indicator"}

-----------------------------------------------------------------------------
(* The start and the end of the two services                               *)
(* (main.py 47-188, api_main.py 35-86, session_manager.py 51-187).         *)
(* The browser and the session manager are the environment: each of their  *)
(* calls gives one of the results its interface allows.                    *)

\* one access to the persisted authentication state, and the part of the run
\* ("startup", "login", "serving" or "shutdown") it happens in
Access(op, phase) == [op |-> op, phase |-> phase]

\* main.py 90 calls connect_browserless(storage_state=...).  The method of
\* session_manager.py 51 takes no such argument, so with that session manager the
\* call raises TypeError ("raised"); a session manager that takes it gives what
\* lines 53-94 give: False when the connection fails, True otherwise.
MainConnectOutcomes == {"raised", "refused", "connected"}

\* api_main.py 44: the call fits the method; the connection can fail before the
\* storage file is read (line 72) or after it (line 82)
ApiConnectOutcomes == {"refused_early", "refused_late", "connected"}

\* main.py 177 `app.get_storage_state()`: no method of that name stands in
\* session_manager.py (AttributeError, "raised"); a session manager that has it
\* gives the state or nothing
StorageStateOutcomes == {"raised", "none", "state"}

\* line 169 wrapping the main page again
WrappedPage_MainPage(main_page, page) == main_page

\* main.py 167-169: the handler appended wraps the page just opened
WrappedPage(main_page, page) == page

\* the service before its start
ServiceInit ==
    /\ HandlerIdle
    /\ program \in {"pool", "single"}
    /\ b_pc = "start"
    /\ handlers = <<>>
    /\ pages_opened = 0
    /\ storage_exists \in IF program = "single" THEN BOOLEAN ELSE {TRUE}
    /\ auth_log = <<>>
    /\ page_url = [h \in Handlers |-> NoId]
    /\ pool = <<>>
    /\ is_busy = FALSE
    /\ req = [r \in Requests |-> FreshRequest]
    /\ chats = {}
    /\ messages = {}
    /\ turns = 0

\* main.py 84-88: the stored session of the account is looked up
InitializeRead ==
    /\ program = "pool"
    /\ b_pc = "start"
    /\ auth_log' = Append(auth_log, Access("read", "startup"))
    /\ b_pc' = "connect"
    /\ UNCHANGED <<handlerVars, page_url, handlers, pages_opened, storage_exists, program,
                   pool, is_busy,
                   req, chats, messages, turns>>

\* main.py 90-93 and 50-59: a refused connection returns (None, []), and the
\* lifespan goes on to serve with nothing queued; a raise ends the lifespan
InitializeConnect ==
    /\ program = "pool"
    /\ b_pc = "connect"
    /\ \E outcome \in MainConnectOutcomes :
        b_pc' = CASE outcome = "raised" -> "crashed"
                  [] outcome = "refused" -> "serving"
                  [] OTHER -> "main_page"
    /\ UNCHANGED <<handlerVars, page_url, handlers, pages_opened, storage_exists, auth_log,
                   program, pool,
                   is_busy, req, chats, messages, turns>>

\* main.py 96-103: the main page is made and navigated
InitializeMainPage ==
    /\ program = "pool"
    /\ b_pc = "main_page"
    /\ \E raises \in BOOLEAN :
        IF raises
        THEN b_pc' = "crashed" /\ UNCHANGED pages_opened
        ELSE b_pc' = "login_check" /\ pages_opened' = pages_opened + 1
    /\ UNCHANGED <<handlerVars, page_url, handlers, storage_exists, auth_log, program, pool,
                   is_busy, req,
                   chats, messages, turns>>

\* main.py 105-163: the login indicators; the login form when none shows; the
\* first handler made over the main page.  A failed login away from the chat
\* page closes the browser and returns (None, []).
InitializeLogin ==
    /\ program = "pool"
    /\ b_pc = "login_check"
    /\ \E is_logged_in \in BOOLEAN, login \in {"ok", "failed_on_chat", "failed"} :
        IF is_logged_in \/ login # "failed"
        THEN b_pc' = "pages" /\ handlers' = <<pages_opened>>
        ELSE b_pc' = "serving" /\ UNCHANGED handlers
    /\ UNCHANGED <<handlerVars, page_url, pages_opened, storage_exists, auth_log, program,
                   pool, is_busy,
                   req, chats, messages, turns>>

\* main.py 164-170: one more page is opened and wrapped, num_pages - 1 times
InitializeOpenPage ==
    /\ program = "pool"
    /\ b_pc = "pages"
    /\ Len(handlers) < PoolSize
    /\ \E raises \in BOOLEAN :
        IF raises
        THEN b_pc' = "crashed" /\ UNCHANGED <<handlers, pages_opened>>
        ELSE /\ pages_opened' = pages_opened + 1
             /\ handlers' = Append(handlers, WrappedPage(handlers[1], pages_opened'))
             /\ UNCHANGED b_pc
    /\ UNCHANGED <<handlerVars, page_url, storage_exists, auth_log, program, pool, is_busy,
                   req, chats,
                   messages, turns>>

\* main.py 172 and 53-59: the handlers are returned and queued, each once
LifespanQueue ==
    /\ program = "pool"
    /\ b_pc = "pages"
    /\ Len(handlers) = PoolSize
    /\ pool' = [i \in 1..Len(handlers) |-> i]
    /\ b_pc' = "serving"
    /\ UNCHANGED <<handlerVars, page_url, handlers, pages_opened, storage_exists, auth_log, program,
                   is_busy, req, chats, messages, turns>>

\* no request is inside the endpoint
NoneInFlight == \A r \in Requests : req[r].pc \in {"new", "done"}

\* main.py 62-66 and 174-188: with a session manager, the storage state is saved
\* and the browser closed
LifespanShutdown ==
    /\ program = "pool"
    /\ b_pc = "serving"
    /\ NoneInFlight
    /\ b_pc' = "stopped"
    /\ \E outcome \in StorageStateOutcomes :
        IF handlers # <<>> /\ outcome = "state"
        THEN /\ auth_log' = Append(auth_log, Access("write", "shutdown"))
             /\ storage_exists' = TRUE
        ELSE UNCHANGED <<auth_log, storage_exists>>
    /\ UNCHANGED <<handlerVars, page_url, handlers, pages_opened, program, pool, is_busy, req,
                   chats,
                   messages, turns>>

\* api_main.py 38-46, session_manager.py 53-94: the storage file, when there is
\* one, is read between the connection (72) and the context (82)
ApiConnect ==
    /\ program = "single"
    /\ b_pc = "start"
    /\ \E outcome \in ApiConnectOutcomes :
        /\ b_pc' = IF outcome = "connected" THEN "new_page" ELSE "serving"
        /\ auth_log' = IF storage_exists /\ outcome # "refused_early"
                       THEN Append(auth_log, Access("read", "startup"))
                       ELSE auth_log
    /\ UNCHANGED <<handlerVars, page_url, handlers, pages_opened, storage_exists, program,
                   pool, is_busy,
                   req, chats, messages, turns>>

\* api_main.py 48-55, session_manager.py 134-159: the page is made, the storage
\* file, when there is one, is read by load_session, and the page is navigated
ApiLoadSession ==
    /\ program = "single"
    /\ b_pc = "new_page"
    /\ \E raises \in {"new_page", "goto", "no"} :
        /\ b_pc' = IF raises = "no" THEN "login_check" ELSE "crashed"
        /\ pages_opened' = IF raises = "new_page" THEN pages_opened ELSE pages_opened + 1
        /\ auth_log' = IF storage_exists /\ raises # "new_page"
                       THEN Append(auth_log, Access("read", "startup"))
                       ELSE auth_log
    /\ UNCHANGED <<handlerVars, page_url, handlers, storage_exists, program, pool, is_busy,
                   req, chats,
                   messages, turns>>

\* api_main.py 57-80, session_manager.py 104-132: the login indicator; the login
\* form when it does not show, and the session saved after a login that went
\* through (unless reading the storage state raises); the handler made
ApiLogin ==
    /\ program = "single"
    /\ b_pc = "login_check"
    /\ \E is_logged_in \in BOOLEAN, login_ok \in BOOLEAN, saved \in BOOLEAN :
        IF ~is_logged_in /\ login_ok /\ saved
        THEN /\ auth_log' = Append(auth_log, Access("write", "login"))
             /\ storage_exists' = TRUE
        ELSE UNCHANGED <<auth_log, storage_exists>>
    /\ handlers' = <<pages_opened>>
    /\ b_pc' = "serving"
    /\ UNCHANGED <<handlerVars, page_url, pages_opened, program, pool, is_busy, req, chats,
                   messages,
                   turns>>

\* api_main.py 84-86, session_manager.py 169-187: close() saves the session
\* when there is a context
ApiShutdown ==
    /\ program = "single"
    /\ b_pc = "serving"
    /\ NoneInFlight
    /\ b_pc' = "stopped"
    /\ \E saved \in BOOLEAN :
        IF handlers # <<>> /\ saved
        THEN /\ auth_log' = Append(auth_log, Access("write", "shutdown"))
             /\ storage_exists' = TRUE
        ELSE UNCHANGED <<auth_log, storage_exists>>
    /\ UNCHANGED <<handlerVars, page_url, handlers, pages_opened, program, pool, is_busy, req,
                   chats,
                   messages, turns>>

\* the requests of the services, while they serve
ServeRequests ==
    /\ b_pc = "serving"
    /\ \E r \in Requests :
        \/ PoolArriveOver(r, {<<"a">>}, {NoId})
        \/ PoolAcquire(r)
        \/ PoolPrepareOver(r, BOOLEAN)
        \/ PoolSendOver(r, {o \in SendOutcomes : o.typed})
        \/ PoolUrlOver(r, {NoId})
        \/ PoolWait(r)
        \/ PoolGetOver(r, {None})
        \/ PoolFinish(r)
        \/ SingleArriveOver(r, {<<"a">>})
        \/ SingleSendOver(r, {o \in SendOutcomes : o.typed})
        \/ SingleWait(r)
        \/ SingleGetOver(r, {None}, {NoId})

ServiceNext ==
    \/ InitializeRead
    \/ InitializeConnect
    \/ InitializeMainPage
    \/ InitializeLogin
    \/ InitializeOpenPage
    \/ LifespanQueue
    \/ LifespanShutdown
    \/ ApiConnect
    \/ ApiLoadSession
    \/ ApiLogin
    \/ ApiShutdown
    \/ ServeRequests

SpecService == ServiceInit /\ [][ServiceNext]_vars

\* the page a request's handler stands over
PageOf(r) == handlers[req[r].handler]

\* how often handler h is queued
TimesQueued(h) == Cardinality({i \in DOMAIN pool : pool[i] = h})

\* C21: once initialize_deepseek(num_pages) has given its handlers, they are
\* num_pages handlers over pairwise distinct pages; the lifespan queues each of
\* them once, so each is either queued once or held by one turn; and no two
\* turns ever operate the same page.
C21_HandlersWrapDistinctPages ==
    /\ (program = "pool" /\ b_pc \in {"serving", "stopped"} /\ handlers # <<>>) =>
        /\ Len(handlers) = PoolSize
        /\ \A i, j \in DOMAIN handlers : handlers[i] = handlers[j] => i = j
        /\ \A h \in DOMAIN handlers :
            TimesQueued(h) + Cardinality({r \in Holding : req[r].handler = h}) = 1
    /\ \A r1, r2 \in Holding : r1 # r2 => PageOf(r1) # PageOf(r2)

\* C21 witness: after a startup that went through, as many turns as there are
\* handlers are executing, each on a page of its own
C21_Witness ==
    /\ program = "pool"
    /\ b_pc = "serving"
    /\ Len(handlers) = PoolSize
    /\ Cardinality(Holding) = PoolSize
    /\ Cardinality({PageOf(r) : r \in Holding}) = PoolSize

\* the accesses of one kind made so far
AccessesOf(op) == {i \in DOMAIN auth_log : auth_log[i].op = op}

\* C22: over a whole run of a service the persisted authentication state is read
\* at startup only, and not more than once (once, in the pooled service, from the
\* lookup on); it is written only directly after a fresh login or at shutdown.
C22_AuthStateReadOnceWrittenAtEnds ==
    /\ \A i \in AccessesOf("read") : auth_log[i].phase = "startup"
    /\ \A i \in AccessesOf("write") : auth_log[i].phase \in {"login", "shutdown"}
    /\ Cardinality(AccessesOf("read")) <= 1
    /\ (program = "pool" /\ b_pc # "start") => Cardinality(AccessesOf("read")) = 1
    /\ Cardinality({i \in AccessesOf("write") : auth_log[i].phase = "shutdown"}) <= 1

-----------------------------------------------------------------------------
(* What the endpoints report after a wait that ended by timeout            *)
(* (main.py 251-263, api_main.py 150-158)                                  *)

\* the ways wait_for_response() ends when called without arguments
DefaultWaitExits == {"timeout", "stable"}

\* main.py 47-61, api_main.py 28-33: a service that has started
OutcomeInit ==
    /\ HandlerIdle
    /\ program \in {"pool", "single"}
    /\ BootDoneWith(IF program = "pool" THEN PoolSize ELSE 1)
    /\ pool = IF program = "pool" THEN [h \in Handlers |-> h] ELSE <<>>
    /\ is_busy = FALSE
    /\ req = [r \in Requests |-> FreshRequest]
    /\ chats = {}
    /\ messages = {}
    /\ turns = 0

\* two requests, one after the other or side by side
OutcomeNext ==
    \E r \in CallerRequests :
        \/ PoolArriveOver(r, {<<"a">>}, {NoId})
        \/ PoolPrepareOver(r, BOOLEAN)
        \/ PoolSendOver(r, SendOutcomes)
        \/ PoolUrlOver(r, {NoId, RealId(1)})
        \/ PoolWaitOver(r, DefaultWaitExits)
        \/ PoolGetOver(r, {None, Some(<<"a">>)})
        \/ PoolFinish(r)
        \/ SingleArriveOver(r, {<<"a">>})
        \/ SingleSendOver(r, SendOutcomes)
        \/ SingleWaitOver(r, DefaultWaitExits)
        \/ SingleGetOver(r, {None, Some(<<"a">>)}, {NoId, RealId(1)})

SpecOutcome == OutcomeInit /\ [][OutcomeNext]_vars

\* what the client of a finished request is told
Reported(r) ==
    [status |-> req[r].status,
     response |-> IF req[r].status = "success" THEN req[r].response_text ELSE None,
     chat_id |-> req[r].out_chat_id]

\* C23: a turn whose wait_for_response ended by timeout is reported to the
\* client with an outcome that differs from the outcome reported for a turn
\* whose wait ended with the generation observed complete.
C23_TimeoutOutcomeDistinguishable ==
    \A r1, r2 \in CallerRequests :
        (/\ req[r1].pc = "done" /\ req[r1].wait_exit = "timeout"
         /\ req[r2].pc = "done" /\ req[r2].wait_exit = "stable")
        => Reported(r1) # Reported(r2)

-----------------------------------------------------------------------------
(* More properties of wait_for_response, checked under SpecWait *)

\* C24: when wait_for_response ends on stable text, the polls that led to it (the
\* read that set the text and the required equal reads after it) are the last
\* polls of the call, one after the other, each with the indicator absent: a
\* poll that sees the indicator again in between starts the count over.
C24_StableTicksAreConsecutivePolls ==
    (Returned_ /\ exit_reason = "stable") =>
        LET n == Len(polls)
        IN /\ n >= StableTicksRequired + 1
           /\ \A k \in 0..StableTicksRequired : ~polls[n - k].gen

\* C25: wait_for_response makes no indicator check and no text read before the
\* grace period has passed since the call, and after it never two polls less
\* than one poll interval apart.
C25_GraceThenOnePollPerInterval ==
    /\ \A i \in 1..Len(polls) : polls[i].at - start_time >= GraceSeconds
    /\ \A i \in 1..(Len(polls) - 1) : polls[i + 1].at - polls[i].at >= PollSeconds

\* C25 witness: a call that polled three times, the first time right after the
\* grace period, has returned
C25_Witness ==
    /\ Returned_
    /\ Len(polls) >= 3
    /\ polls[1].at = start_time + GraceSeconds
    /\ polls[1].gen

-----------------------------------------------------------------------------
(* More properties of get_latest_response, checked under SpecGet *)

\* the first query, primary path first and then the alternatives in list order,
\* that matches an element, and the last element it matches
FirstMatching(d) ==
    CHOOSE q \in AllQueries :
        /\ QuerySelectorAll(d, q) # <<>>
        /\ \A p \in AllQueries : p < q => QuerySelectorAll(d, p) = <<>>
UsedBubble(d) ==
    LET matched == QuerySelectorAll(d, FirstMatching(d))
    IN matched[Len(matched)]
Answered == response.called /\ page_ok /\ ~NoQueryMatches(dom)

\* C26: get_latest_response uses the last element of the first non-empty match
\* list (primary path, then the alternatives in list order); it returns the text
\* of the nested content element when that element exists, and otherwise the
\* text of the bubble's markdown element or, when there is none, the bubble's
\* own text.
C26_ContentTextThenBubbleText ==
    Answered =>
        LET b == UsedBubble(dom)
        IN response.value =
            Some(Strip(IF HasContent(b) THEN ContentText(b)
                       ELSE IF BubbleHasMarkdown(b) THEN MarkdownText(b)
                       ELSE BubbleText(b)))

\* C26 as amended: as above, but inside an existing nested content element the
\* markdown element is looked for first, and the content element's own text is
\* returned only when it holds no markdown element.
C26_MarkdownThenContentThenBubbleText ==
    Answered =>
        LET b == UsedBubble(dom)
        IN response.value =
            Some(Strip(IF HasContent(b)
                       THEN IF ContentHasMarkdown(b) THEN MarkdownText(b) ELSE ContentText(b)
                       ELSE IF BubbleHasMarkdown(b) THEN MarkdownText(b)
                       ELSE BubbleText(b)))

\* C26 witness: the primary path matches nothing, the element used is the one an
\* earlier alternative matches although a later alternative matches the newest
\* element of the page, and the text of the markdown element inside its nested
\* content is what came back
C26_Witness ==
    /\ Answered
    /\ Len(dom) = 2
    /\ QuerySelectorAll(dom, 0) = <<>>
    /\ dom[2].kind \in AllQueries
    /\ dom[1].kind < dom[2].kind
    /\ UsedBubble(dom) = dom[1]
    /\ ContentHasMarkdown(dom[1])
    /\ response.value = Some(Strip(MarkdownText(dom[1])))
    /\ Strip(MarkdownText(dom[1])) # Strip(ContentText(dom[1]))

-----------------------------------------------------------------------------
(* More properties of send_message, checked under SpecSend *)

Times(action) == Cardinality({i \in DOMAIN page_log : page_log[i] = action})
Uploads == {"set_input_files", "set_input_files(missing)"}
UploadLogged == \E i \in DOMAIN page_log : page_log[i] \in Uploads

\* C27: within one send_message call the text is typed before an attachment is
\* set on the file control, the Enter keypress comes after both, and a click on
\* a send control comes after the Enter keypress; the text is typed once, never
\* twice, and nothing of the rest happens without it.
C27_PageActionsInOrder ==
    /\ Times("type") <= 1
    /\ Times("enter") <= 1
    /\ Times("click") <= 1
    /\ \A i, j \in DOMAIN page_log :
        /\ (page_log[i] = "type" /\ page_log[j] \in Uploads) => i < j
        /\ (page_log[i] \in {"type"} \cup Uploads /\ page_log[j] = "enter") => i < j
        /\ (page_log[i] = "enter" /\ page_log[j] = "click") => i < j
    /\ (UploadLogged \/ Entered \/ send_result = "True") => Times("type") = 1
    /\ (Logged("click") \/ send_result = "True") => Entered

\* C27 witness: a call that typed, attached the image, pressed Enter and clicked
\* a send control has returned
C27_Witness ==
    /\ SendReturned
    /\ page_log = <<"focus", "type", "set_input_files", "enter", "click">>

\* C28: when the input element cannot be read after the Enter keypress (the page
\* has moved on), send_message takes the message as sent: it returns True at
\* once, without probing for or clicking a send control.
C28_UnreadableInputCountsAsSent ==
    (Entered /\ s_pc # "check" /\ ~input_readable) =>
        /\ SendReturned
        /\ send_result = "True"
        /\ textarea_val = <<>>
        /\ ~probed_send
        /\ target_send_selector = 0
        /\ click_outcome = "-"
        /\ ~Logged("click")

\* C28 witness: the page navigated on Enter with the typed text never seen
\* cleared, and the call returned True
C28_Witness ==
    /\ SendReturned
    /\ Entered
    /\ page_ok
    /\ ~input_readable
    /\ Strip(input_value) # <<>>
    /\ send_result = "True"

-----------------------------------------------------------------------------
(* The pooled endpoint with requests whose task is cancelled                *)
(* (main.py 190-272)                                                       *)

\* the cancellations followed in one run
MaxCancelled == 1

\* the release written in an `except Exception:` clause, which a CancelledError
\* passes by
ReleasedOnCancel_ExceptOnly == FALSE

\* lines 270-272 are a `finally:` clause: it runs for a CancelledError too
ReleasedOnCancel == TRUE

\* the requests whose task has been cancelled
Cancelled == {r \in Requests : req[r].status = "cancelled"}

\* the task of a request is cancelled at one of its awaits: inside the try the
\* outer finally of lines 270-272 runs; in the get() of line 193 no handler is held
PoolCancel(r) ==
    /\ program = "pool"
    /\ req[r].pc \notin {"new", "done"}
    /\ Cardinality(Cancelled) < MaxCancelled
    /\ IF req[r].handler # 0 /\ ReleasedOnCancel
       THEN PoolExit(r, req[r], "cancelled")
       ELSE /\ req' = [req EXCEPT ![r].pc = "done", ![r].status = "cancelled", ![r].handler = 0]
            /\ UNCHANGED pool
    /\ UNCHANGED <<handlerVars, bootVars, program, is_busy, chats, messages, turns>>

CancelNext ==
    \E r \in Requests :
        \/ PoolArriveOver(r, {<<"a">>}, {NoId})
        \/ PoolAcquire(r)
        \/ PoolPrepareOver(r, BOOLEAN)
        \/ PoolSendOver(r, {o \in SendOutcomes : o.typed})
        \/ PoolUrlOver(r, {NoId})
        \/ PoolWait(r)
        \/ PoolGetOver(r, {None})
        \/ PoolFinish(r)
        \/ PoolCancel(r)

SpecCancel == PoolInit /\ [][CancelNext]_vars

\* C29: on every way a request of the pooled endpoint ends (an error response,
\* an exception, a cancelled task) the handler it acquired is put back into the
\* pool, once, in the step that ends it; no handler is ever queued twice; and
\* when no request is inside its turn the pool holds all N handlers.
C29_HandlerReleasedOnEveryExit ==
    /\ [](/\ \A r \in Requests : req[r].pc = "done" => req[r].handler = 0
          /\ Cardinality(Queued) = Len(pool)
          /\ (Executing = {} => (Len(pool) = PoolSize /\ Queued = Handlers)))
    /\ [][\A r \in Requests :
            (req[r].handler # 0 /\ req'[r].pc = "done") =>
                /\ pool' = Append(pool, req[r].handler)
                /\ req'[r].handler = 0]_vars

\* C29 witness: every request has ended, one by a failed send, one by an
\* exception before the send, one cancelled inside its turn, and the pool holds
\* all N handlers again
C29_Witness ==
    /\ \A r \in Requests : req[r].pc = "done"
    /\ \E r \in Requests : req[r].status = "cancelled" /\ req[r].calls # <<>>
    /\ \E r \in Requests : req[r].status = "error" /\ req[r].success = "False"
    /\ \E r \in Requests : req[r].status = "error" /\ req[r].calls = <<>>
    /\ Len(pool) = PoolSize
    /\ Queued = Handlers

-----------------------------------------------------------------------------
(* Progress of the requests of the pooled service *)

\* what the event loop does for a request that has arrived: it resumes the
\* task whenever the task can go on
RequestStep(r) ==
    /\ b_pc = "serving"
    /\ \/ PoolAcquire(r)
       \/ PoolPrepareOver(r, BOOLEAN)
       \/ PoolSendOver(r, {o \in SendOutcomes : o.typed})
       \/ PoolUrlOver(r, {NoId})
       \/ PoolWait(r)
       \/ PoolGetOver(r, {None})
       \/ PoolFinish(r)

\* every turn that runs comes to its end, and a task that can go on does
SpecServiceFair == SpecService /\ \A r \in Requests : WF_vars(RequestStep(r))

\* a request of the pooled service that has arrived
Arrived(r) == program = "pool" /\ req[r].pc # "new"

\* C30: every request that reaches the pooled /chat endpoint eventually holds
\* a handler and eventually gets its response, also after a startup that made
\* no handler.
C30_EveryRequestAnswered ==
    \A r \in Requests :
        /\ (Arrived(r) /\ req[r].pc = "acquire") ~> (req[r].handler # 0)
        /\ Arrived(r) ~> (req[r].pc = "done")

\* What the endpoint does guarantee: after a startup that queued its handlers,
\* every request that has arrived gets its response.
RequestsAnsweredWhenPoolFilled ==
    \A r \in Requests : (Arrived(r) /\ handlers # <<>>) ~> (req[r].pc = "done")

-----------------------------------------------------------------------------
(* The single-handler endpoint under concurrent requests                    *)
(* (api_main.py 28-33, 99-170)                                             *)

\* the requests between `state.is_busy = True` (112) and the statement that
\* clears the flag: each is suspended in one of the awaits of lines 140-151
InFlight == {r \in Requests : program = "single" /\ req[r].pc \in {"send", "wait", "get"}}

\* lines 160-162: an exception of a page operation is caught, the flag cleared
\* and an error response returned
SingleRaise(r) ==
    /\ r \in InFlight
    /\ req' = [req EXCEPT ![r] = [SingleFinally(req[r]) EXCEPT !.pc = "done", !.status = "error"]]
    /\ is_busy' = FALSE
    /\ UNCHANGED <<handlerVars, bootVars, program, pool, chats, messages, turns>>

\* the task of a request is cancelled at one of its awaits: CancelledError is
\* not an Exception, so lines 160-162 are passed by and only the finally of
\* lines 163-170 runs, which does not touch the flag
SingleCancel(r) ==
    /\ r \in InFlight
    /\ Cardinality(Cancelled) < MaxCancelled
    /\ req' = [req EXCEPT ![r] = [SingleFinally(req[r]) EXCEPT
                                     !.pc = "done", !.status = "cancelled"]]
    /\ UNCHANGED <<handlerVars, bootVars, program, pool, is_busy, chats, messages, turns>>

\* api_main.py 35-79: the lifespan has made the one handler
BusyInit ==
    /\ HandlerIdle
    /\ BootDoneWith(1)
    /\ program = "single"
    /\ pool = <<>>
    /\ is_busy = FALSE
    /\ req = [r \in Requests |-> FreshRequest]
    /\ chats = {}
    /\ messages = {}
    /\ turns = 0

BusyNext ==
    \E r \in Requests :
        \/ SingleArriveOver(r, {<<"a">>})
        \/ SingleSendOver(r, SendOutcomes)
        \/ SingleWaitOver(r, DefaultWaitExits)
        \/ SingleGetOver(r, {None, Some(<<"a">>)}, {NoId, RealId(1)})
        \/ SingleRaise(r)
        \/ SingleCancel(r)

SpecBusy == BusyInit /\ [][BusyNext]_vars

\* C31: in the single-handler API at most one request is between the set and
\* the clearing of is_busy, under every interleaving; a request that arrives
\* while is_busy is true is rejected (503) in that step and performs no page
\* action; and a request that goes on has set the flag in the step of its
\* test, so that no other request runs between the test and the set.
C31_OneRequestInFlight ==
    /\ [](/\ Cardinality(InFlight) <= 1
          /\ InFlight # {} => is_busy
          /\ \A r \in Requests : req[r].status = "rejected" => req[r].calls = <<>>)
    /\ [][\A r \in Requests :
            (req[r].pc = "new" /\ req'[r].pc # "new") =>
                IF is_busy
                THEN /\ req'[r].pc = "done"
                     /\ req'[r].status = "rejected"
                     /\ req'[r].calls = <<>>
                     /\ is_busy'
                ELSE req'[r].pc # "done" => (is_busy' /\ InFlight = {})]_vars

\* C31 witness: a request is inside its turn after an earlier one has ended with
\* a reply, and a third one, which arrived meanwhile, has been rejected
C31_Witness ==
    /\ \E r \in InFlight : req[r].calls # <<>>
    /\ \E r \in Requests : req[r].status = "success"
    /\ \E r \in Requests : req[r].status = "rejected"

\* C32: in the single-handler API is_busy is false again after every way a
\* request that set it can end (success, failed send, invalid image, exception,
\* cancelled task): whenever no request is between the set and its end, the
\* flag is false.
C32_BusyClearedOnEveryExit ==
    (program = "single" /\ InFlight = {}) => ~is_busy

\* What the endpoint does guarantee: the flag is false again when no request is
\* in progress and no task has been cancelled.
BusyClearedOnReturningExits ==
    (program = "single" /\ InFlight = {} /\ Cancelled = {}) => ~is_busy

-----------------------------------------------------------------------------
(* The temporary image file of a /chat request                              *)
(* (main.py 205-221, 266-269; api_main.py 110-132, 163-170)                *)

FilesInit ==
    /\ HandlerIdle
    /\ program \in {"pool", "single"}
    /\ BootDoneWith(IF program = "pool" THEN PoolSize ELSE 1)
    /\ pool = IF program = "pool" THEN [h \in Handlers |-> h] ELSE <<>>
    /\ is_busy = FALSE
    /\ req = [r \in Requests |-> FreshRequest]
    /\ chats = {}
    /\ messages = {}
    /\ turns = 0

FilesNext ==
    \E r \in CallerRequests :
        \/ PoolArriveOver(r, {<<"a">>}, {NoId})
        \/ PoolPrepareWith(r, BOOLEAN, Images)
        \/ PoolSendOver(r, {o \in SendOutcomes : o.typed})
        \/ PoolUrlOver(r, {NoId, RealId(1)})
        \/ PoolWait(r)
        \/ PoolGetOver(r, {None})
        \/ PoolFinish(r)
        \/ PoolCancel(r)
        \/ SingleArriveWith(r, {<<"a">>}, Images)
        \/ SingleSendOver(r, {o \in SendOutcomes : o.typed})
        \/ SingleWait(r)
        \/ SingleGetOver(r, {None}, {NoId})
        \/ SingleRaise(r)
        \/ SingleCancel(r)

SpecFiles == FilesInit /\ [][FilesNext]_vars

\* C33: a temporary image file written from image_base64 by a /chat request no
\* longer exists when that request has ended, on every exit path after the file
\* was created, in both endpoints.
C33_TempFileGoneAtEnd ==
    \A r \in Requests : req[r].pc = "done" => req[r].temp_file # "exists"

\* What the endpoints do guarantee: the single-handler endpoint removes the file
\* on every exit, and the pooled endpoint on every exit that comes after the
\* user message was stored (from send_message on).
TempFileGoneInSingle ==
    \A r \in Requests :
        (program = "single" /\ req[r].pc = "done") => req[r].temp_file # "exists"

TempFileGoneAfterInnerTry ==
    /\ \A r \in Requests :
        (program = "pool" /\ req[r].pc = "done" /\ req[r].temp_file = "exists") =>
            req[r].calls = <<>>
    /\ \A r \in Requests :
        (req[r].pc = "done" /\ req[r].calls # <<>>) =>
            req[r].temp_file \in {"-", "removed"}

-----------------------------------------------------------------------------
(* The chat store called on the stores a service can have                   *)
(* (core/data_manager.py 52-131, core/models.py 32-56)                      *)

\* the chats an earlier run has left in the store
MaxStoredChats == 2

\* the chat ids a caller can name: a temporary uuid and two ids of the host
StoreIds == {Uuid(1), RealId(1), RealId(2)}

\* models.py 35-36: `id` is the primary key and `chat_id` is unique
WellKeyed(cs) ==
    \A c1, c2 \in cs : (c1.id = c2.id \/ c1.chat_id = c2.chat_id) => c1 = c2

\* the stores earlier turns 1..MaxStoredChats can have left: each made at most
\* one chat row and stored one user message, which lies in a row that exists
\* (models.py 50)
StoredRows == {[id |-> RowIdFor(i, "user"), chat_id |-> x] : i \in 1..MaxStoredChats, x \in StoreIds}
StoredMessages(cs) == {[chat |-> c.id, role |-> "user", by |-> i] : c \in cs, i \in 1..MaxStoredChats}
UniqueBy(ms) == \A m1, m2 \in ms : m1.by = m2.by => m1 = m2

StoreInit ==
    /\ HandlerIdle
    /\ BootDoneWith(0)
    /\ program = "store"
    /\ pool = <<>>
    /\ is_busy = FALSE
    /\ req = [r \in Requests |-> FreshRequest]
    /\ turns = 0
    /\ chats \in {cs \in SUBSET StoredRows : WellKeyed(cs)}
    /\ messages \in {ms \in SUBSET StoredMessages(chats) : UniqueBy(ms)}

\* what a call has done to the store, as seen from outside
Outcome(st, cs, ms) ==
    IF st.raised THEN "raised"
    ELSE IF st.chats = cs /\ st.messages = ms THEN "kept"
    ELSE IF Cardinality(st.chats) < Cardinality(cs) THEN "merged"
    ELSE "renamed"

\* the calls followed in one run
StoreCalls == {1, 2, 3}

\* the call number turns + 1 is written down in the request slot of that number
Called(op, a, b, outcome) ==
    /\ turns + 1 \in StoreCalls
    /\ turns' = turns + 1
    /\ req' = [req EXCEPT ![turns + 1] = [@ EXCEPT !.pc = "done", !.calls = <<op>>,
                                                   !.chat_uuid = a, !.real = b,
                                                   !.status = outcome]]

\* the first argument of the calls: a temporary id, an id of the host, and
\* the primary key of a chat row
OldIds == {Uuid(1), RealId(1), RowIdFor(1, "user")}

\* one call of update_chat_id(old_id, new_id); new_id is the id of the page URL
\* (main.py 245-248, 370-376)
StoreUpdateChatId ==
    /\ program = "store"
    /\ \E old_id \in OldIds, new_id \in UrlIds \ {NoId} :
        LET st == UpdateChatId(chats, messages, old_id, new_id)
        IN /\ Called("update_chat_id", old_id, new_id, Outcome(st, chats, messages))
           /\ IF st.raised THEN UNCHANGED <<chats, messages>> ELSE StoreBecomes(st)
    /\ UNCHANGED <<handlerVars, bootVars, program, pool, is_busy>>

StoreNext == StoreUpdateChatId

SpecStore == StoreInit /\ [][StoreNext]_vars

\* the call made in this step, and the rows it meets
UpdateCalled == turns' = turns + 1 /\ req'[turns + 1].calls = <<"update_chat_id">>
OldId == req'[turns + 1].chat_uuid
NewId == req'[turns + 1].real
OldChats == ChatsMatching(chats, OldId)
OtherWithNewId(old_chat) == {c \in chats : c.chat_id = NewId /\ c # old_chat}
MessagesOf(ms, c) == {m \in ms : m.chat = c.id}

\* C34: update_chat_id(old, new) with old # new and an existing old chat never
\* loses or duplicates a message. When another record already has chat_id = new,
\* every message of the old chat afterwards belongs to that record and the old
\* record is gone; otherwise the old record keeps its messages and its chat_id
\* is new. In both cases the number of messages is unchanged, and the store
\* after the call is one function of the store before it.
C34_UpdateChatIdKeepsMessages ==
    [][(UpdateCalled /\ OldId # NewId /\ OldChats # {}) =>
        \A old_chat \in OldChats :
            /\ Cardinality(messages') = Cardinality(messages)
            /\ {m.by : m \in messages'} = {m.by : m \in messages}
            /\ IF OtherWithNewId(old_chat) # {}
               THEN \A other \in OtherWithNewId(old_chat) :
                        /\ chats' = chats \ {old_chat}
                        /\ MessagesOf(messages', old_chat) = {}
                        /\ {m.by : m \in MessagesOf(messages', other)} =
                              {m.by : m \in MessagesOf(messages, other) \cup
                                             MessagesOf(messages, old_chat)}
                        /\ \A c \in chats \ {old_chat, other} :
                              MessagesOf(messages', c) = MessagesOf(messages, c)
               ELSE /\ chats' = (chats \ {old_chat}) \cup {[old_chat EXCEPT !.chat_id = NewId]}
                    /\ messages' = messages]_vars

\* C34 witness: a call has merged a chat that held a message into another
\* record that held one, and another call has renamed a chat that held one
C34_Witness ==
    /\ \E r \in Requests : req[r].calls = <<"update_chat_id">> /\ req[r].status = "merged"
    /\ \E r \in Requests : req[r].calls = <<"update_chat_id">> /\ req[r].status = "renamed"
    /\ \E c \in chats : Cardinality(MessagesOf(messages, c)) >= 2
    /\ Cardinality(messages) = MaxStoredChats

\* the calls of update_chat_id that the code answers without a change: both ids
\* equal (97-98), no chat found for the old id (105-106), and the chat found for
\* the old id being the record that has chat_id = new_id already (117)
SameIds == OldId = NewId
NoOldChat == OldChats = {}
OldChatHasNewId == \E old_chat \in OldChats : old_chat.chat_id = NewId

\* C35: update_chat_id(old, new) leaves every chat and message record unchanged
\* when old = new, when no chat matches old, and when the chat found for old is
\* the record that already has chat_id = new.
C35_UpdateChatIdFrame ==
    [][(UpdateCalled /\ (SameIds \/ NoOldChat \/ OldChatHasNewId)) =>
        (chats' = chats /\ messages' = messages)]_vars

\* C35 witness: three calls have left the store as it was, one with both ids
\* equal and a chat under that id, one with an old id no chat matches, and one
\* whose old id is the primary key of the chat that has the new id; the store
\* holds messages
C35_Witness ==
    /\ \A r \in StoreCalls : req[r].calls = <<"update_chat_id">> /\ req[r].status = "kept"
    /\ \E r \in StoreCalls :
        /\ req[r].chat_uuid = req[r].real
        /\ ChatsMatching(chats, req[r].chat_uuid) # {}
    /\ \E r \in StoreCalls :
        /\ req[r].chat_uuid # req[r].real
        /\ ChatsMatching(chats, req[r].chat_uuid) = {}
    /\ \E r \in StoreCalls, c \in chats :
        /\ req[r].chat_uuid # req[r].real
        /\ c.id = req[r].chat_uuid
        /\ c.chat_id = req[r].real
    /\ messages # {}

-----------------------------------------------------------------------------
(* The store calls of concurrent turns, statement by statement              *)
(* (core/data_manager.py 72-93, 100-131; main.py 240-249)                  *)
(* Every turn has a database session of its own (main.py 224). A select    *)
(* reads the rows that are in the store at that moment; between a select   *)
(* and the write that follows it the task awaits, and other turns run.     *)

\* the column written without the unique constraint
UniqueChatId_NotEnforced == FALSE

\* models.py 36: `chat_id = Column(String, unique=True, index=True)`
UniqueChatId == TRUE

\* the write of a row with that chat_id is refused (IntegrityError) when another
\* row has it
Refused(cs, id, chat_id) ==
    UniqueChatId /\ \E c \in cs : c.chat_id = chat_id /\ c.id # id

RowWithId(cs, id) == {c \in cs : c.id = id}

\* the chat ids the turns of this study name, the last one the primary key of
\* the chat an earlier run left
RaceArgs == {NoId, RealId(1), EarlierChat.id}

\* the concurrent turns followed
RaceTurns == {1, 2, 3}

\* the turn ends: "success" stands for a store call sequence that went through
RaceEnd(r, rq, status) == req' = [req EXCEPT ![r] = [rq EXCEPT !.pc = "done", !.status = status]]

RaceInit ==
    /\ HandlerIdle
    /\ BootDoneWith(PoolSize)
    /\ program = "race"
    /\ pool = <<>>
    /\ is_busy = FALSE
    /\ req = [r \in Requests |-> FreshRequest]
    /\ turns = 0
    /\ chats \in {{}, {EarlierChat}}
    /\ messages = {[chat |-> c.id, role |-> "user", by |-> 0] : c \in chats}

\* main.py 196-201 and data_manager.py 72-75: the chat looked up for the user message
SaveSelectChat(r) ==
    /\ program = "race"
    /\ req[r].pc = "new"
    /\ \E a \in RaceArgs :
        LET chat_uuid == IF a = NoId THEN Uuid(r) ELSE a
            found == ChatsMatching(chats, chat_uuid)
            rq == [req[r] EXCEPT !.chat_arg = a, !.chat_uuid = chat_uuid]
        IN IF Cardinality(found) > 1
           THEN RaceEnd(r, rq, "error")
           ELSE req' = [req EXCEPT ![r] = [rq EXCEPT
                           !.pc = "save_insert",
                           !.db_chat = IF found = {} THEN NoRow ELSE CHOOSE c \in found : TRUE]]
    /\ UNCHANGED <<handlerVars, bootVars, program, pool, is_busy, chats, messages, turns>>

\* data_manager.py 77-93: the chat row made when none was found, and the message
\* stored under the primary key of the row
SaveInsert(r) ==
    /\ program = "race"
    /\ req[r].pc = "save_insert"
    /\ LET made == [id |-> RowIdFor(r, "user"), chat_id |-> req[r].chat_uuid]
           db_chat == IF req[r].db_chat = NoRow THEN made ELSE req[r].db_chat
           new_msg == [chat |-> db_chat.id, role |-> "user", by |-> r]
       IN IF req[r].db_chat = NoRow /\ Refused(chats, made.id, made.chat_id)
          THEN RaceEnd(r, req[r], "conflict") /\ UNCHANGED <<chats, messages>>
          ELSE /\ req' = [req EXCEPT ![r].pc = "update", ![r].db_chat = db_chat,
                                     ![r].saved_as = req[r].chat_uuid]
               /\ chats' = IF req[r].db_chat = NoRow THEN chats \cup {made} ELSE chats
               /\ messages' = messages \cup {new_msg}
    /\ UNCHANGED <<handlerVars, bootVars, program, pool, is_busy, turns>>

\* main.py 245-248 and data_manager.py 97-106: the id of the page URL, and the
\* chat looked up under the old id
UpdateSelectOld(r) ==
    /\ program = "race"
    /\ req[r].pc = "update"
    /\ \E real \in UrlIds :
        LET olds == ChatsMatching(chats, req[r].chat_uuid)
            rq == [req[r] EXCEPT !.real = real]
        IN IF real = NoId \/ real = req[r].chat_uuid \/ olds = {}
           THEN RaceEnd(r, rq, "success")
           ELSE IF Cardinality(olds) > 1
           THEN RaceEnd(r, rq, "error")
           ELSE req' = [req EXCEPT ![r] = [rq EXCEPT !.pc = "update_check",
                                                    !.old_chat = CHOOSE c \in olds : TRUE]]
    /\ UNCHANGED <<handlerVars, bootVars, program, pool, is_busy, chats, messages, turns>>

\* data_manager.py 108-111: the record looked up under the new id
UpdateSelectExisting(r) ==
    /\ program = "race"
    /\ req[r].pc = "update_check"
    /\ LET existing == {c \in chats : c.chat_id = req[r].real}
       IN IF Cardinality(existing) > 1
          THEN RaceEnd(r, req[r], "error")
          ELSE req' = [req EXCEPT ![r].pc = "update_write",
                                  ![r].existing_chat = IF existing = {} THEN NoRow
                                                       ELSE CHOOSE c \in existing : TRUE]
    /\ UNCHANGED <<handlerVars, bootVars, program, pool, is_busy, chats, messages, turns>>

\* data_manager.py 113-131: the merge or the rename written; the rows are
\* addressed by their primary key, and a row that is gone is not written
UpdateWrite(r) ==
    /\ program = "race"
    /\ req[r].pc = "update_write"
    /\ LET old_chat == req[r].old_chat
           existing_chat == req[r].existing_chat
           present == RowWithId(chats, old_chat.id)
       IN IF existing_chat # NoRow
          THEN /\ RaceEnd(r, req[r], "success")
               /\ IF IsOtherRecord(existing_chat, old_chat)
                  THEN /\ chats' = chats \ present
                       /\ messages' = MovedMessages(messages, old_chat, existing_chat)
                  ELSE UNCHANGED <<chats, messages>>
          ELSE IF present = {}
          THEN RaceEnd(r, req[r], "error") /\ UNCHANGED <<chats, messages>>
          ELSE IF Refused(chats, old_chat.id, req[r].real)
          THEN RaceEnd(r, req[r], "conflict") /\ UNCHANGED <<chats, messages>>
          ELSE /\ RaceEnd(r, req[r], "success")
               /\ chats' = (chats \ present) \cup {[old_chat EXCEPT !.chat_id = req[r].real]}
               /\ UNCHANGED messages
    /\ UNCHANGED <<handlerVars, bootVars, program, pool, is_busy, turns>>

RaceNext ==
    \E r \in RaceTurns :
        \/ SaveSelectChat(r)
        \/ SaveInsert(r)
        \/ UpdateSelectOld(r)
        \/ UpdateSelectExisting(r)
        \/ UpdateWrite(r)

SpecRace == RaceInit /\ [][RaceNext]_vars

\* the ids a lookup can be made with
LookupIds == {c.chat_id : c \in chats} \cup {c.id : c \in chats}

\* C36: after any sequence and any interleaving of concurrent /chat turns that
\* call save_chat_message and update_chat_id, no two chat records share a
\* chat_id (or a primary key), and every lookup by (chat_id == x OR id == x)
\* matches at most one record.
C36_ChatIdsUnique ==
    /\ WellKeyed(chats)
    /\ \A x \in LookupIds : Cardinality(ChatsMatching(chats, x)) <= 1

\* C36 witness: two turns looked up the same chat id before either had written
\* its row, one wrote it and the other was refused by the store; and a turn was
\* refused the rename to an id that another turn's row had taken meanwhile
C36_Witness ==
    /\ \E r1, r2 \in Requests :
        /\ r1 # r2
        /\ req[r1].chat_uuid = req[r2].chat_uuid
        /\ req[r1].db_chat.id = RowIdFor(r1, "user")
        /\ req[r2].status = "conflict"
        /\ req[r2].db_chat = NoRow
    /\ \E r \in Requests :
        /\ req[r].status = "conflict"
        /\ req[r].old_chat # NoRow
        /\ req[r].existing_chat = NoRow
    /\ Cardinality(chats) >= 2

-----------------------------------------------------------------------------
(* The pages of the pool from one request to the next                       *)
(* (main.py 193-203, 227-261; core/data_manager.py 113-125)                *)

\* the host: after a message was sent from the home page the page moves to the
\* conversation it has opened for it, .../a/chat/s/<id>, with an id no other
\* conversation has; a page that shows a conversation stays there
HostOpensConversation(r) ==
    /\ program = "pool"
    /\ req[r].pc \in {"url", "wait", "get", "title"}
    /\ page_url[req[r].handler] = NoId
    /\ page_url' = [page_url EXCEPT ![req[r].handler] = RealId(r)]
    /\ UNCHANGED <<handlerVars, b_pc, handlers, pages_opened, storage_exists, auth_log,
                   program, pool, is_busy, req, chats, messages, turns>>

\* the requests name no chat, or a new one; line 245 reads the URL the page has
PagesNext ==
    \E r \in Requests :
        \/ PoolArriveOver(r, {<<"a">>}, {NoId, NewChat})
        \/ PoolAcquire(r)
        \/ PoolPrepareOver(r, {FALSE})
        \/ PoolSendOver(r, {o \in SendOutcomes : o.typed})
        \/ HostOpensConversation(r)
        \/ PoolUrlOver(r, {page_url[req[r].handler]})
        \/ PoolWait(r)
        \/ PoolGetOver(r, {None})
        \/ PoolFinish(r)

SpecPages == PoolInit /\ [][PagesNext]_vars

\* two stored messages lie in one chat record
SameChat(m1, m2) == m1.chat = m2.chat

\* C37: in the pooled endpoint a request that carries no chat_id starts its own
\* conversation: its messages are never stored in a chat record that holds
\* messages of another request that named no existing chat either, whichever
\* page it was given and whatever that page was last used for.
C37_NoChatIdStartsOwnConversation ==
    \A m1, m2 \in messages :
        (/\ SameChat(m1, m2)
         /\ req[m1.by].chat_arg = NoId
         /\ req[m2.by].chat_arg \in {NoId, NewChat}) => m1.by = m2.by

\* What the endpoint does guarantee: requests that ask for a new chat
\* (chat_id "new") are navigated to the home page first, and their messages
\* never share a chat record with one another.
NewChatStartsOwnConversation ==
    \A m1, m2 \in messages :
        (/\ SameChat(m1, m2)
         /\ req[m1.by].chat_arg = NewChat
         /\ req[m2.by].chat_arg = NewChat) => m1.by = m2.by

-----------------------------------------------------------------------------
(* What the pooled endpoint has stored when it answers  (main.py 240-265)   *)

\* the messages of one role that request r has stored
StoredBy(r, role) == {m \in messages : m.by = r /\ m.role = role}

\* the request has ended in an error after its user message was stored: it got
\* as far as send_message
FailedAfterUserMessage(r) ==
    req[r].pc = "done" /\ req[r].status = "error" /\ req[r].calls # <<>>

====
